---- MODULE Spec2Model ----
(***************************************************************************)
(* Offline election tool: the runtime-constants store and the balancing-   *)
(* iterations cell (miner_config.rs), the snapshot reconstructor            *)
(* (snapshot.rs), the simulate pipeline (simulate.rs), the HTTP handlers    *)
(* (api/handler) and the key enumeration (raw_state_client.rs).            *)
(*                                                                         *)
(* The specifications share the variables:                                 *)
(*   SpecStore the once-initialised runtime-constants store;               *)
(*   SpecFetch fetch_miner_constants over the chain's metadata;            *)
(*   SpecCfg   the server's concurrent requests and the iterations cell;   *)
(*   SpecSnap  get_snapshot_data_from_multi_block over a bounded chain;    *)
(*   SpecPhase the same call in every phase of the election;               *)
(*   SpecSim   simulate from a reconstructed snapshot to its result;       *)
(*   SpecOverride the manual override of simulate over bounded inputs;     *)
(*   SpecHttp  the simulate and snapshot handlers from request to response;*)
(*   SpecKeys  get_all_keys against a node whose chain grows, and          *)
(*   SpecKeysFair the same with every awaited RPC answered.                *)
(***************************************************************************)
EXTENDS Integers, Sequences, FiniteSets, TLC

VARIABLES
    RUNTIME_CONFIG,        \* OnceLock<MinerConstants>: Unset or the stored constants
    BALANCING_ITERATIONS,  \* Mutex<usize>
    setLog,                \* history of set_runtime_constants calls: <<value, outcome>>
    lastRead,              \* what the last get_runtime_constants returned
    req,                   \* the in-flight simulate requests of the server
    chain,                 \* the chain's storage at the requested block
    block_details,         \* BlockDetails of the call
    pc,                    \* position of the reconstruction / simulation
    staking_config,        \* StakingConfig read for the block
    voters,                \* the voters collected so far (native pages or synthesised voters)
    nominator_futures,     \* join_all slots of the per-nominator futures
    validators_futures,    \* join_all slots of the per-validator futures
    snapshot,              \* what get_snapshot_data_from_multi_block returned, then
                           \* simulate's `mut snapshot`
    params,                \* the arguments of simulate read so far
    mine_input,            \* the MineInput handed to the miner
    total_supports,        \* BTreeMap<AccountId, Support> merged from the pages
    result,                \* what simulate / build returned
    http,                  \* the HTTP exchange: handler, block text, stage, response
    metadata,              \* the constants of the chain's metadata, as fetch_constant finds them
    miner_constants,       \* what fetch_miner_constants returned
    node,                  \* the RPC node: its head and the keys under the prefix per block
    enumeration            \* an enumeration of the keys: block, loop state, result

cfgVars == <<RUNTIME_CONFIG, BALANCING_ITERATIONS, setLog, lastRead, req>>

snapVars == <<chain, block_details, pc, staking_config, voters, nominator_futures,
              validators_futures, snapshot>>

simVars == <<params, mine_input, total_supports, result>>

httpVars == <<http>>

mainVars == <<metadata, miner_constants>>

keyVars == <<node, enumeration>>

vars == <<cfgVars, snapVars, simVars, httpVars, mainVars, keyVars>>

\* ------------------------------------------------------------------ bounds

\* number of set_runtime_constants calls a run makes
MaxSetAttempts == 3
\* largest balancing iteration count a request carries
MaxIterations == 2
\* simulate requests in flight at once
NumRequests == 2
\* largest Pages constant of a chain
MaxPages == 2
\* largest VoterSnapshotPerBlock / TargetSnapshotPerBlock constant of a chain
MaxPerBlock == 2
\* most keys under Staking.Nominators and under Staking.Validators
MaxEnum == 2
\* most accounts whose staking entries are suppressed or missing
MaxIrregular == 1
\* most entries of an override's candidates list and of its voters list
MaxAddLen == 2
\* most entries of an override's candidates_remove and voters_remove lists
MaxRemoveLen == 1
\* most targets and most voters of a snapshot handed to the manual override
MaxSnapshotLen == 2

\* ------------------------------------------------------- runtime constants

\* Option<T>: None is the empty sequence, Some(x) the one-element sequence
None == <<>>

Some(x) == <<x>>

\* the empty OnceLock
Unset == None

\* MinerConstants as fetched from the chain (the fields the pipeline reads)
ConstantsChoices ==
    [pages : 1..2, voter_snapshot_per_block : 1..2, target_snapshot_per_block : {2}]

\* OnceLock::set: stores only into an empty cell
OnceLockSetOverwrites(cell, value) == Some(value)

OnceLockSet(cell, value) == IF cell = Unset THEN Some(value) ELSE cell

\* set_runtime_constants: RUNTIME_CONFIG.set(constants).expect(..)
set_runtime_constants(constants) ==
    /\ Len(setLog) < MaxSetAttempts
    /\ RUNTIME_CONFIG' = OnceLockSet(RUNTIME_CONFIG, constants)
    /\ setLog' = Append(setLog,
                   [value |-> constants,
                    outcome |-> IF RUNTIME_CONFIG = Unset THEN "ok" ELSE "panic"])
    /\ UNCHANGED <<BALANCING_ITERATIONS, lastRead, req, snapVars, simVars, httpVars, mainVars, keyVars>>

\* get_runtime_constants: RUNTIME_CONFIG.get().expect(..)
get_runtime_constants ==
    /\ lastRead' = IF RUNTIME_CONFIG = Unset
                   THEN [panic |-> TRUE, value |-> None]
                   ELSE [panic |-> FALSE, value |-> RUNTIME_CONFIG]
    /\ UNCHANGED <<RUNTIME_CONFIG, BALANCING_ITERATIONS, setLog, req, snapVars, simVars, httpVars, mainVars, keyVars>>

\* ------------------------------------------------ request-scoped binding

Requests == 1..NumRequests

NoConfig == None

\* BalancingIterations::get: the solver's balancing configuration
BalancingIterationsGet ==
    IF BALANCING_ITERATIONS > 0
    THEN Some([iterations |-> BALANCING_ITERATIONS, tolerance |-> 0])
    ELSE NoConfig

\* the balancing configuration a request asked for
RequestedBalancing(iterations) ==
    IF iterations > 0 THEN Some([iterations |-> iterations, tolerance |-> 0]) ELSE NoConfig

\* set_balancing_iterations
set_balancing_iterations(iterations) ==
    BALANCING_ITERATIONS' = iterations

\* with_election_config: the balancing_iterations cell is written from the
\* request's parameters for the enclosed call
with_election_config(iterations) ==
    set_balancing_iterations(iterations)

\* simulate_handler up to the binding: body.iterations.unwrap_or(0), then the
\* simulation is run inside with_election_config
simulate_handler(r) ==
    /\ RUNTIME_CONFIG # Unset
    /\ req[r].pc = "idle"
    /\ \E iterations \in 0..MaxIterations :
          /\ with_election_config(iterations)
          /\ req' = [req EXCEPT ![r] = [pc |-> "scoped", iterations |-> iterations,
                                        observed |-> NoConfig]]
    /\ UNCHANGED <<RUNTIME_CONFIG, setLog, lastRead, snapVars, simVars, httpVars, mainVars, keyVars>>

\* simulate: the awaits before mining (block details, snapshot) suspend the task
simulate_await(r) ==
    /\ req[r].pc = "scoped"
    /\ req' = [req EXCEPT ![r].pc = "mining"]
    /\ UNCHANGED <<RUNTIME_CONFIG, BALANCING_ITERATIONS, setLog, lastRead, snapVars, simVars, httpVars, mainVars, keyVars>>

\* simulate: spawn_blocking runs BaseMiner::mine_solution, whose solver reads
\* BalancingIterations::get()
mine_solution(r) ==
    /\ req[r].pc = "mining"
    /\ req' = [req EXCEPT ![r].pc = "solved", ![r].observed = BalancingIterationsGet]
    /\ UNCHANGED <<RUNTIME_CONFIG, BALANCING_ITERATIONS, setLog, lastRead, snapVars, simVars, httpVars, mainVars, keyVars>>

\* simulate_handler: the response is sent and the request ends
respond(r) ==
    /\ req[r].pc = "solved"
    /\ req' = [req EXCEPT ![r] = [pc |-> "idle", iterations |-> 0, observed |-> NoConfig]]
    /\ UNCHANGED <<RUNTIME_CONFIG, BALANCING_ITERATIONS, setLog, lastRead, snapVars, simVars, httpVars, mainVars, keyVars>>

\* --------------------------------------------------------------- data model

\* Result<T, E>
Ok(v) == [ok |-> TRUE, val |-> v]

Err(e) == [ok |-> FALSE, err |-> e]

\* AccountId, ordered as the integers
Accounts == {1, 2, 3}

\* Balance (u128): hi * 2^64 + lo, with lo < 2^64
U128(hi, lo) == [hi |-> hi, lo |-> lo]

\* comparison of two u128
Geq128(a, b) == a.hi > b.hi \/ (a.hi = b.hi /\ a.lo >= b.lo)

\* `x as u64` of a u128: the low 64 bits
AsU64(a) == a.lo

\* `x as u128` of a u64
FromU64(w) == U128(0, w)

\* MaxVotesPerVoter = ConstU32<16> (polkadot::MinerConfig)
MaxVotesPerVoter == 16

\* Phase
PhaseOff == [tag |-> "Off", n |-> 0]

PhaseSigned(n) == [tag |-> "Signed", n |-> n]

PhaseSnapshot(n) == [tag |-> "Snapshot", n |-> n]

PhaseDone == [tag |-> "Done", n |-> 0]

PhaseEmergency == [tag |-> "Emergency", n |-> 0]

\* a snapshot counts as available in every phase but Off and Emergency
HasSnapshotWhileCreated(phase) == phase.tag \notin {"Off", "Emergency"}

\* Phase::has_snapshot
has_snapshot(phase) ==
    CASE phase.tag = "Snapshot" /\ phase.n = 0 -> TRUE
      [] phase.tag = "Done" -> TRUE
      [] phase.tag = "Signed" -> TRUE
      [] phase.tag = "SignedValidation" -> TRUE
      [] phase.tag = "Unsigned" -> TRUE
      [] phase.tag = "Export" -> TRUE
      [] phase.tag = "Snapshot" -> FALSE
      [] phase.tag = "Off" -> FALSE
      [] phase.tag = "Emergency" -> FALSE

\* Vec::truncate
Truncate(s, n) == IF Len(s) <= n THEN s ELSE SubSeq(s, 1, n)

\* the elements of a set in ascending order (Vec::sort of distinct keys)
RECURSIVE SortedSeq(_)
SortedSeq(S) ==
    IF S = {} THEN <<>>
    ELSE LET m == CHOOSE x \in S : \A y \in S : x <= y
         IN <<m>> \o SortedSeq(S \ {m})

\* position at which a stable sort inserts a voter: after every entry whose
\* key is not larger
RECURSIVE InsertByKey(_, _)
InsertByKey(sorted, v) ==
    IF sorted = <<>> THEN <<v>>
    ELSE IF sorted[Len(sorted)][1] <= v[1] THEN Append(sorted, v)
    ELSE Append(InsertByKey(SubSeq(sorted, 1, Len(sorted) - 1), v), sorted[Len(sorted)])

\* a voter list left in the order it was collected
Unsorted(vs) == vs

\* voters.sort_by_key(|v| v.0.clone()): stable, ascending by AccountId
RECURSIVE SortByKey(_)
SortByKey(vs) ==
    IF vs = <<>> THEN <<>>
    ELSE InsertByKey(SortByKey(SubSeq(vs, 1, Len(vs) - 1)), vs[Len(vs)])

\* slice::chunks(n): consecutive pages of n entries, the last one shorter
RECURSIVE Chunks(_, _)
Chunks(s, n) ==
    IF s = <<>> THEN <<>>
    ELSE IF Len(s) <= n THEN <<s>>
    ELSE <<SubSeq(s, 1, n)>> \o Chunks(SubSeq(s, n + 1, Len(s)), n)

\* concatenation of pages
RECURSIVE Flatten(_)
Flatten(pages) ==
    IF pages = <<>> THEN <<>> ELSE pages[1] \o Flatten(Tail(pages))

\* the runtime constants the MinerConfig getters read
Pages == RUNTIME_CONFIG[1].pages

VoterSnapshotPerBlock == RUNTIME_CONFIG[1].voter_snapshot_per_block

TargetSnapshotPerBlock == RUNTIME_CONFIG[1].target_snapshot_per_block

\* ---------------------------------------------------- snapshot reconstructor

\* which storage read of a future, if any, fails in transport
ReadFailures ==
    IF chain.transport = "lossy" THEN {"none", "nominations", "bonded", "ledger"}
    ELSE {"none"}

\* whether a single read fails in transport
ReadFails == IF chain.transport = "lossy" THEN BOOLEAN ELSE {FALSE}

\* get_block_details: the phase, Pages and the desired targets of the block
get_block_details ==
    /\ pc = "idle"
    /\ block_details' = [phase |-> chain.phase,
                         n_pages |-> Pages,
                         desired_targets |-> IF chain.DesiredTargets = None
                                             THEN 600 ELSE chain.DesiredTargets[1]]
    /\ pc' = "config"
    /\ UNCHANGED <<cfgVars, httpVars, mainVars, keyVars, simVars, chain, staking_config, voters, nominator_futures,
                   validators_futures, snapshot>>

\* get_staking_config_from_multi_block, then the branch on phase.has_snapshot();
\* a failed read of a bond ends the reconstruction
get_staking_config ==
    /\ pc = "config"
    /\ \E failed \in ReadFails :
          IF failed
          THEN /\ snapshot' = Some(Err("MinNominatorBond not found"))
               /\ pc' = "done"
               /\ UNCHANGED staking_config
          ELSE /\ staking_config' = [desired_validators |-> block_details.desired_targets,
                                     max_nominations |-> MaxVotesPerVoter,
                                     min_nominator_bond |-> chain.MinNominatorBond,
                                     min_validator_bond |-> chain.MinValidatorBond]
               /\ pc' = IF has_snapshot(block_details.phase) THEN "native" ELSE "synth"
               /\ UNCHANGED snapshot
    /\ UNCHANGED <<cfgVars, httpVars, mainVars, keyVars, simVars, chain, block_details, voters, nominator_futures,
                   validators_futures>>

\* fetch_paged_voter_snapshot for the next page of 0..n_pages
fetch_paged_voter_snapshot ==
    /\ pc = "native"
    /\ Len(voters) < block_details.n_pages
    /\ LET page == Len(voters)
           entry == IF page \in DOMAIN chain.PagedVoterSnapshot
                    THEN chain.PagedVoterSnapshot[page] ELSE None
       IN IF entry = None
          THEN /\ snapshot' = Some(Err("Voter snapshot not found"))
               /\ pc' = "done"
               /\ UNCHANGED voters
          ELSE /\ voters' = Append(voters, entry[1])
               /\ UNCHANGED <<snapshot, pc>>
    /\ UNCHANGED <<cfgVars, httpVars, mainVars, keyVars, simVars, chain, block_details, staking_config, nominator_futures,
                   validators_futures>>

\* the targets read at the first page
FirstPageIndex(n_pages) == 0

\* the page of the target snapshot: block_details.n_pages - 1
TargetPageIndex(n_pages) == n_pages - 1

\* fetch_paged_target_snapshot at n_pages - 1 and the native return
fetch_paged_target_snapshot ==
    /\ pc = "native"
    /\ Len(voters) = block_details.n_pages
    /\ LET page == TargetPageIndex(block_details.n_pages)
           entry == IF page \in DOMAIN chain.PagedTargetSnapshot
                    THEN chain.PagedTargetSnapshot[page] ELSE None
       IN snapshot' = IF entry = None
                      THEN Some(Err("Target snapshot not found"))
                      ELSE Some(Ok([voters |-> voters, targets |-> entry[1]]))
    /\ pc' = "done"
    /\ UNCHANGED <<cfgVars, httpVars, mainVars, keyVars, simVars, chain, block_details, staking_config, voters,
                   nominator_futures, validators_futures>>

\* enumerate_accounts: the keys of the map, sorted and deduplicated
enumerate_accounts(keys) == SortedSeq(keys)

\* get_nominators and get_validators, then the futures are created
enumerate ==
    /\ pc = "synth"
    /\ \E failed \in ReadFails :
          IF failed
          THEN /\ snapshot' = Some(Err("Error getting keys paged"))
               /\ pc' = "done"
               /\ UNCHANGED <<nominator_futures, validators_futures>>
          ELSE /\ nominator_futures' =
                     [i \in 1..Cardinality(chain.NominatorKeys) |->
                        [who |-> enumerate_accounts(chain.NominatorKeys)[i], out |-> None]]
               /\ validators_futures' =
                     [i \in 1..Cardinality(chain.ValidatorKeys) |->
                        [who |-> enumerate_accounts(chain.ValidatorKeys)[i], out |-> None]]
               /\ pc' = "nominators"
               /\ UNCHANGED snapshot
    /\ UNCHANGED <<cfgVars, httpVars, mainVars, keyVars, simVars, chain, block_details, staking_config, voters>>

\* one nominator future: nominations, controller, ledger, then the voter
NominatorVoter(nominator, fail) ==
    IF fail = "nominations" THEN Err("transport")
    ELSE LET nominations == chain.Nominators[nominator]
         IN IF nominations = None \/ nominations[1].suppressed THEN Ok(None)
            ELSE IF fail = "bonded" THEN Err("transport")
            ELSE LET controller == chain.Bonded[nominator]
                 IN IF controller = None THEN Ok(None)
                    ELSE IF fail = "ledger" THEN Err("transport")
                    ELSE LET stake == chain.Ledger[controller[1]]
                         IN IF stake = None
                               \/ ~Geq128(stake[1].active, staking_config.min_nominator_bond)
                            THEN Ok(None)
                            ELSE Ok(Some(<<nominator, AsU64(stake[1].active),
                                           Truncate(nominations[1].targets,
                                                    MaxVotesPerVoter)>>))

\* a nominator future completes
nominator_future(i) ==
    /\ pc = "nominators"
    /\ nominator_futures[i].out = None
    /\ \E fail \in ReadFailures :
          nominator_futures' = [nominator_futures EXCEPT
              ![i].out = Some(NominatorVoter(nominator_futures[i].who, fail))]
    /\ UNCHANGED <<cfgVars, httpVars, mainVars, keyVars, simVars, chain, block_details, pc, staking_config, voters,
                   validators_futures, snapshot>>

\* join_all(nominator_futures) ... filter_map(|result| result.ok().flatten())
JoinedVoters(futures) ==
    LET emitted == SelectSeq(futures, LAMBDA f : f.out[1].ok /\ f.out[1].val # None)
    IN [i \in 1..Len(emitted) |-> emitted[i].out[1].val[1]]

\* every nominator future has completed: the voters are collected
join_nominators ==
    /\ pc = "nominators"
    /\ \A i \in 1..Len(nominator_futures) : nominator_futures[i].out # None
    /\ voters' = JoinedVoters(nominator_futures)
    /\ pc' = "validators"
    /\ UNCHANGED <<cfgVars, httpVars, mainVars, keyVars, simVars, chain, block_details, staking_config, nominator_futures,
                   validators_futures, snapshot>>

\* a self-voter for every validator whose ledger is found
SelfVoterWithoutBond(validator, validator_ledger) ==
    IF validator_ledger # None
    THEN Some(<<validator, AsU64(validator_ledger[1].active), <<validator>>>>)
    ELSE None

\* the self-voter of a validator: only with has_sufficient_nominator_bond
SelfVoter(validator, validator_ledger) ==
    IF validator_ledger # None
       /\ Geq128(validator_ledger[1].active, staking_config.min_nominator_bond)
    THEN Some(<<validator, AsU64(validator_ledger[1].active), <<validator>>>>)
    ELSE None

\* one validator future: controller, ledger, then (target, self-voter)
ValidatorResult(validator, fail) ==
    IF fail = "bonded" THEN Err("transport")
    ELSE LET controller == chain.Bonded[validator]
         IN IF controller = None THEN Ok(<<None, None>>)
            ELSE IF fail = "ledger" THEN Err("transport")
            ELSE LET validator_ledger == chain.Ledger[controller[1]]
                     has_sufficient_bond ==
                         validator_ledger # None
                         /\ Geq128(validator_ledger[1].active,
                                   staking_config.min_validator_bond)
                 IN Ok(<<IF has_sufficient_bond THEN Some(validator) ELSE None,
                         SelfVoter(validator, validator_ledger)>>)

\* a validator future completes
validator_future(i) ==
    /\ pc = "validators"
    /\ validators_futures[i].out = None
    /\ \E fail \in ReadFailures \ {"nominations"} :
          validators_futures' = [validators_futures EXCEPT
              ![i].out = Some(ValidatorResult(validators_futures[i].who, fail))]
    /\ UNCHANGED <<cfgVars, httpVars, mainVars, keyVars, simVars, chain, block_details, pc, staking_config, voters,
                   nominator_futures, snapshot>>

\* the targets pushed from the validator results
ResultTargets(results) ==
    LET kept == SelectSeq(results, LAMBDA r : r[1] # None)
    IN [i \in 1..Len(kept) |-> kept[i][1][1]]

\* the self-voters pushed from the validator results
ResultVoters(results) ==
    LET kept == SelectSeq(results, LAMBDA r : r[2] # None)
    IN [i \in 1..Len(kept) |-> kept[i][2][1]]

\* the voters in the order in which they are paged
OrderVoters(vs) == SortByKey(vs)

\* the synthesised snapshot: targets and self-voters pushed, voters sorted and
\* chunked, the target page bounded by TargetSnapshotPerBlock
SynthesisedSnapshot(collected, results) ==
    LET targets == ResultTargets(results)
        all == OrderVoters(collected \o ResultVoters(results))
        pages == Chunks(all, VoterSnapshotPerBlock)
    IN IF Len(targets) > TargetSnapshotPerBlock
       THEN Err("Too many targets")
       ELSE Ok([voters |-> pages, targets |-> targets])

\* join_all(validators_futures) collected into a Result, then the return
assemble ==
    /\ pc = "validators"
    /\ \A i \in 1..Len(validators_futures) : validators_futures[i].out # None
    /\ LET outs == [i \in 1..Len(validators_futures) |-> validators_futures[i].out[1]]
       IN snapshot' =
            IF \E i \in 1..Len(outs) : ~outs[i].ok
            THEN Some(Err("transport"))
            ELSE Some(SynthesisedSnapshot(voters,
                                          [i \in 1..Len(outs) |-> outs[i].val]))
    /\ pc' = "done"
    /\ UNCHANGED <<cfgVars, httpVars, mainVars, keyVars, simVars, chain, block_details, staking_config, voters,
                   nominator_futures, validators_futures>>

\* get_snapshot_data_from_multi_block
get_snapshot_data_from_multi_block ==
    \/ get_staking_config
    \/ fetch_paged_voter_snapshot
    \/ fetch_paged_target_snapshot
    \/ enumerate
    \/ \E i \in 1..Len(nominator_futures) : nominator_future(i)
    \/ join_nominators
    \/ \E i \in 1..Len(validators_futures) : validator_future(i)
    \/ assemble

\* ------------------------------------------------------------------ simulate

\* an account as text (ss58), or text that is no account
to_ss58check(a) == [valid |-> TRUE, id |-> a]

BadText == [valid |-> FALSE, id |-> 0]

\* AccountId::from_ss58check
from_ss58check(text) == IF text.valid THEN Ok(text.id) ELSE Err("invalid ss58")

\* Vec::contains
Contains(s, x) == \E i \in 1..Len(s) : s[i] = x

\* the voters below the bond removed, the pages left empty kept
FilterVotersKeepingPages(pages, min_nominator_bond) ==
    IF min_nominator_bond = None THEN pages
    ELSE [p \in 1..Len(pages) |->
             SelectSeq(pages[p],
                       LAMBDA voter : Geq128(FromU64(voter[2]), min_nominator_bond[1]))]

\* min_nominator_bond filter: voters with weight as u128 >= the bond are kept
\* in their pages, pages left empty are dropped; unwrap_or(0) > 0 gates it
FilterVoters(pages, min_nominator_bond) ==
    LET effective == IF min_nominator_bond = None THEN U128(0, 0)
                     ELSE min_nominator_bond[1]
        filtered == [p \in 1..Len(pages) |->
                        SelectSeq(pages[p],
                                  LAMBDA voter : Geq128(FromU64(voter[2]), effective))]
    IN IF effective = U128(0, 0) THEN pages
       ELSE SelectSeq(filtered, LAMBDA page : page # <<>>)

\* a target is kept unless its ledger is found with active below the bond
TargetRetainedUnlessBelow(validator, bond) ==
    LET controller == chain.Bonded[validator]
    IN \/ controller = None
       \/ chain.Ledger[controller[1]] = None
       \/ Geq128(chain.Ledger[controller[1]][1].active, bond)

\* one future of the min_validator_bond filter: the target is kept if its
\* controller's ledger has active >= the bond
TargetRetained(validator, bond) ==
    LET controller == chain.Bonded[validator]
    IN /\ controller # None
       /\ chain.Ledger[controller[1]] # None
       /\ Geq128(chain.Ledger[controller[1]][1].active, bond)

\* every candidate of the list pushed, contained or not
RECURSIVE PushCandidates(_, _)
PushCandidates(targets, candidates) ==
    IF candidates = <<>> THEN Ok(targets)
    ELSE LET id == from_ss58check(Head(candidates))
         IN IF ~id.ok THEN id
            ELSE PushCandidates(Append(targets, id.val), Tail(candidates))

\* for c in &manual.candidates: push unless already contained
RECURSIVE AddCandidates(_, _)
AddCandidates(targets, candidates) ==
    IF candidates = <<>> THEN Ok(targets)
    ELSE LET id == from_ss58check(Head(candidates))
         IN IF ~id.ok THEN id
            ELSE AddCandidates(IF Contains(targets, id.val) THEN targets
                               ELSE Append(targets, id.val),
                               Tail(candidates))

\* for c in &manual.candidates_remove: retain the others
RECURSIVE RemoveCandidates(_, _)
RemoveCandidates(targets, candidates_remove) ==
    IF candidates_remove = <<>> THEN Ok(targets)
    ELSE LET id == from_ss58check(Head(candidates_remove))
         IN IF ~id.ok THEN id
            ELSE RemoveCandidates(SelectSeq(targets, LAMBDA x : x # id.val),
                                  Tail(candidates_remove))

\* the votes of an override voter parsed, collected into a Result
RECURSIVE ParseVotes(_)
ParseVotes(texts) ==
    IF texts = <<>> THEN Ok(<<>>)
    ELSE LET id == from_ss58check(Head(texts))
             rest == ParseVotes(Tail(texts))
         IN IF ~id.ok THEN id
            ELSE IF ~rest.ok THEN rest
            ELSE Ok(<<id.val>> \o rest.val)

\* a second entry pushed for a voter that is already present
PushVoter(all_voters, voter_data) == Append(all_voters, voter_data)

\* all_voters.iter_mut().find(|vv| vv.0 == voter_data.0): the first entry of
\* the account is overwritten, a new account is pushed
AddOrReplaceVoter(all_voters, voter_data) ==
    IF \E i \in 1..Len(all_voters) : all_voters[i][1] = voter_data[1]
    THEN LET first == CHOOSE i \in 1..Len(all_voters) :
                          /\ all_voters[i][1] = voter_data[1]
                          /\ \A j \in 1..(i - 1) : all_voters[j][1] # voter_data[1]
         IN [all_voters EXCEPT ![first] = voter_data]
    ELSE Append(all_voters, voter_data)

\* for v in &manual.voters: add or override
RECURSIVE AddVoters(_, _)
AddVoters(all_voters, manual_voters) ==
    IF manual_voters = <<>> THEN Ok(all_voters)
    ELSE LET v == Head(manual_voters)
             voter_id == from_ss58check(v[1])
             votes == ParseVotes(v[3])
         IN IF ~voter_id.ok THEN voter_id
            ELSE IF ~votes.ok THEN votes
            ELSE IF Len(votes.val) > MaxVotesPerVoter THEN Err("Too many nominations")
            ELSE AddVoters(AddOrReplaceVoter(all_voters, <<voter_id.val, v[2], votes.val>>),
                           Tail(manual_voters))

\* for v in &manual.voters_remove: retain the others
RECURSIVE RemoveVoters(_, _)
RemoveVoters(all_voters, voters_remove) ==
    IF voters_remove = <<>> THEN Ok(all_voters)
    ELSE LET voter_id == from_ss58check(Head(voters_remove))
         IN IF ~voter_id.ok THEN voter_id
            ELSE RemoveVoters(SelectSeq(all_voters, LAMBDA vv : vv[1] # voter_id.val),
                              Tail(voters_remove))

\* the manual override of simulate: candidate adds, candidate removes, the
\* bounded target page, voter add/replace, voter removes, repaging
ManualOverride(snap, manual) ==
    LET added == AddCandidates(snap.targets, manual.candidates)
    IN IF ~added.ok THEN added
       ELSE LET targets == RemoveCandidates(added.val, manual.candidates_remove)
            IN IF ~targets.ok THEN targets
               ELSE IF Len(targets.val) > TargetSnapshotPerBlock
                    THEN Err("Failed to create bounded target page")
               ELSE LET with == AddVoters(Flatten(snap.voters), manual.voters)
                    IN IF ~with.ok THEN with
                       ELSE LET all_voters == RemoveVoters(with.val, manual.voters_remove)
                            IN IF ~all_voters.ok THEN all_voters
                               ELSE Ok([voters |-> Chunks(all_voters.val,
                                                          VoterSnapshotPerBlock),
                                        targets |-> targets.val])

\* the smaller of two numbers
Min(a, b) == IF a <= b THEN a ELSE b

\* the accounts a voter approves among the winners
Approvals(voter, winners) == {t \in winners : Contains(voter[3], t)}

\* the targets some voter approves
Backed(targets, all_voters) ==
    {t \in {targets[i] : i \in 1..Len(targets)} :
        \E i \in 1..Len(all_voters) : Contains(all_voters[i][3], t)}

\* the stake a voter of the given weight gives to t when it backs the set S:
\* equal shares that add up to the weight
Share(weight, S, t) ==
    (weight \div Cardinality(S))
    + (IF t = CHOOSE m \in S : \A x \in S : m <= x THEN weight % Cardinality(S) ELSE 0)

\* the ways the voters can distribute their weight over the winners: each
\* voter backs some of the winners it approves, none only if it approves none
RECURSIVE Backings(_, _)
Backings(all_voters, winners) ==
    IF all_voters = <<>> THEN {<<>>}
    ELSE LET approved == Approvals(Head(all_voters), winners)
             choices == IF approved = {} THEN {{}} ELSE (SUBSET approved) \ {{}}
         IN {<<c>> \o b : c \in choices, b \in Backings(Tail(all_voters), winners)}

\* BaseMiner::mine_solution and check_feasibility, by the solver's contract:
\* min(desired, backed targets) winners out of the backed targets, every
\* voter's whole weight distributed over winners it approves, every winner
\* backed by some voter
Elections(desired_targets, all_targets, all_voters) ==
    LET backed == Backed(all_targets, all_voters)
        elected == {W \in SUBSET backed :
                       Cardinality(W) = Min(desired_targets, Cardinality(backed))}
    IN UNION {{[winners |-> W, backing |-> b] : b \in
                  {b \in Backings(all_voters, W) :
                      \A w \in W : \E i \in 1..Len(b) : w \in b[i]}} : W \in elected}

\* the support of winner w from the voters first..last of the flat voter list
RECURSIVE SupportOf(_, _, _, _, _)
SupportOf(w, all_voters, backing, first, last) ==
    IF first > last THEN [total |-> 0, voters |-> <<>>]
    ELSE LET rest == SupportOf(w, all_voters, backing, first + 1, last)
         IN IF w \in backing[first]
            THEN LET stake == Share(all_voters[first][2], backing[first], w)
                 IN [total |-> stake + rest.total,
                     voters |-> <<<<all_voters[first][1], stake>>>> \o rest.voters]
            ELSE rest

\* the supports of one voter page: the winners the page's voters back
PageSupports(e, all_voters, first, last) ==
    [w \in {w \in e.winners : \E i \in first..last : w \in e.backing[i]} |->
        SupportOf(w, all_voters, e.backing, first, last)]

\* index in the flat voter list of the last voter of page p
RECURSIVE PageEnd(_, _)
PageEnd(voter_pages, p) ==
    IF p = 0 THEN 0 ELSE PageEnd(voter_pages, p - 1) + Len(voter_pages[p])

\* paged_supports: one support map per voter page
PagedSupports(e, voter_pages) ==
    [p \in 1..Len(voter_pages) |->
        PageSupports(e, Flatten(voter_pages),
                     PageEnd(voter_pages, p - 1) + 1, PageEnd(voter_pages, p))]

\* for page in paged_supports.iter(): the entry of each winner accumulates the
\* total and is extended by the page's voters
RECURSIVE MergeSupports(_, _)
MergeSupports(acc, paged_supports) ==
    IF paged_supports = <<>> THEN acc
    ELSE LET page == Head(paged_supports)
             merged == [w \in DOMAIN acc \cup DOMAIN page |->
                           IF w \notin DOMAIN page THEN acc[w]
                           ELSE IF w \notin DOMAIN acc THEN page[w]
                           ELSE [total |-> acc[w].total + page[w].total,
                                 voters |-> acc[w].voters \o page[w].voters]]
         IN MergeSupports(merged, Tail(paged_supports))

\* no support yet
NoSupports == [w \in {} |-> 0]

\* ValidatorPrefs of Staking.Validators
StoredPrefs(a) == [commission |-> 100000000 * a, blocked |-> (a = 3)]

\* get_validator_prefs
get_validator_prefs(validator, failed) ==
    IF failed THEN Err("transport")
    ELSE IF validator \notin chain.ValidatorKeys THEN Err("ValidatorPrefs not found")
    ELSE Ok(StoredPrefs(validator))

\* the Validator record of a winner
Decorate(winner, support, prefs_read) ==
    LET validator_prefs == IF prefs_read.ok THEN prefs_read.val
                           ELSE [commission |-> 0, blocked |-> FALSE]
        own == SelectSeq(support.voters, LAMBDA voter : voter[1] = winner)
        others == SelectSeq(support.voters, LAMBDA voter : voter[1] # winner)
        nominations == [i \in 1..Len(others) |->
                           [nominator |-> to_ss58check(others[i][1]),
                            stake |-> others[i][2]]]
    IN [stash |-> to_ss58check(winner),
        self_stake |-> IF own = <<>> THEN 0 ELSE own[1][2],
        total_stake |-> support.total,
        commission |-> [parts |-> validator_prefs.commission, of |-> 1000000000],
        blocked |-> validator_prefs.blocked,
        nominations_count |-> Len(nominations),
        nominations |-> nominations]

\* ---------------------------------------------------------- simulate steps

\* the min bond overrides a request passes
BondOverrides == {None, Some(U128(0, 0)), Some(U128(0, 100))}

\* the desired_validators a request passes
DesiredChoices == {None, Some(1), Some(5)}

\* the manual overrides a simulate request passes
SimOverrides ==
    {[voters |-> <<<<to_ss58check(3), 100, <<to_ss58check(1)>>>>>>,
      voters_remove |-> <<to_ss58check(2)>>,
      candidates |-> <<to_ss58check(1)>>,
      candidates_remove |-> <<to_ss58check(2)>>]}

\* no argument of simulate read, nothing mined
SimIdle ==
    /\ params = [min_nominator_bond |-> None, min_validator_bond |-> None,
                 manual_override |-> None, desired_validators |-> None]
    /\ mine_input = None
    /\ total_supports = NoSupports
    /\ result = None

\* get_snapshot_data_from_multi_block(..).await? returned an error
simulate_fails ==
    /\ pc = "done"
    /\ ~snapshot[1].ok
    /\ result' = Some(snapshot[1])
    /\ pc' = "finished"
    /\ UNCHANGED <<cfgVars, httpVars, mainVars, keyVars, chain, block_details, staking_config, voters,
                   nominator_futures, validators_futures, snapshot, params,
                   mine_input, total_supports>>

\* the min_nominator_bond filter, then the min_validator_bond filter with its
\* controller and ledger reads joined into a Result
min_bond_filters ==
    /\ pc = "done"
    /\ snapshot[1].ok
    /\ \E min_nominator_bond \in BondOverrides, min_validator_bond \in BondOverrides :
       \E failed \in ReadFails :
          LET snap == snapshot[1].val
              filtered_voter_pages == FilterVoters(snap.voters, min_nominator_bond)
              effective_min_validator_bond ==
                  IF min_validator_bond = None THEN U128(0, 0) ELSE min_validator_bond[1]
              filtered_validators ==
                  SelectSeq(snap.targets,
                            LAMBDA validator :
                                TargetRetained(validator, effective_min_validator_bond))
          IN /\ params' = [params EXCEPT !.min_nominator_bond = min_nominator_bond,
                                         !.min_validator_bond = min_validator_bond]
             /\ IF effective_min_validator_bond = U128(0, 0)
                THEN /\ snapshot' = Some(Ok([voters |-> filtered_voter_pages,
                                             targets |-> snap.targets]))
                     /\ pc' = "override"
                     /\ UNCHANGED result
                ELSE IF failed /\ snap.targets # <<>>
                THEN /\ snapshot' = Some(Ok([voters |-> filtered_voter_pages,
                                             targets |-> snap.targets]))
                     /\ result' = Some(Err("Error filtering validators"))
                     /\ pc' = "finished"
                ELSE /\ snapshot' = Some(Ok([voters |-> filtered_voter_pages,
                                             targets |-> filtered_validators]))
                     /\ pc' = "override"
                     /\ UNCHANGED result
    /\ UNCHANGED <<cfgVars, httpVars, mainVars, keyVars, chain, block_details, staking_config, voters,
                   nominator_futures, validators_futures, mine_input, total_supports>>

\* if let Some(manual) = manual_override { ... }
manual_override(choices) ==
    /\ pc = "override"
    /\ \E manual \in {None} \cup {Some(o) : o \in choices} :
          /\ params' = [params EXCEPT !.manual_override = manual]
          /\ IF manual = None
             THEN /\ pc' = "mine"
                  /\ UNCHANGED <<snapshot, result>>
             ELSE LET overridden == ManualOverride(snapshot[1].val, manual[1])
                  IN IF overridden.ok
                     THEN /\ snapshot' = Some(overridden)
                          /\ pc' = "mine"
                          /\ UNCHANGED result
                     ELSE /\ result' = Some(overridden)
                          /\ pc' = "finished"
                          /\ UNCHANGED snapshot
    /\ UNCHANGED <<cfgVars, httpVars, mainVars, keyVars, chain, block_details, staking_config, voters,
                   nominator_futures, validators_futures, mine_input, total_supports>>

\* the desired targets of the chain, whatever the request passes
ChainDesiredTargets(desired_validators) == staking_config.desired_validators

\* desired_targets: the request's desired_validators if given, else the
\* staking config's
DesiredTargetsFor(desired_validators) ==
    IF desired_validators # None THEN desired_validators[1]
    ELSE staking_config.desired_validators

\* desired_targets, BoundedVec::truncate_from(snapshot.voters), the MineInput,
\* mine_solution on the blocking worker, check_feasibility and the merge of
\* the page supports
mine ==
    /\ pc = "mine"
    /\ \E desired_validators \in DesiredChoices :
          LET desired_targets == DesiredTargetsFor(desired_validators)
              voter_pages == Truncate(snapshot[1].val.voters, Pages)
          IN /\ params' = [params EXCEPT !.desired_validators = desired_validators]
             /\ mine_input' = Some([desired_targets |-> desired_targets,
                                    all_targets |-> snapshot[1].val.targets,
                                    voter_pages |-> voter_pages,
                                    pages |-> Len(voter_pages)])
             /\ \E e \in Elections(desired_targets, snapshot[1].val.targets,
                                   Flatten(voter_pages)) :
                   total_supports' = MergeSupports(NoSupports,
                                                   PagedSupports(e, voter_pages))
    /\ pc' = "decorate"
    /\ UNCHANGED <<cfgVars, httpVars, mainVars, keyVars, chain, block_details, staking_config, voters,
                   nominator_futures, validators_futures, snapshot, result>>

\* the elements of a set in descending order
RECURSIVE DescendingSeq(_)
DescendingSeq(S) ==
    IF S = {} THEN <<>>
    ELSE LET m == CHOOSE x \in S : \A y \in S : x >= y
         IN <<m>> \o DescendingSeq(S \ {m})

\* the winners in descending order of their accounts
WinnersDescending(supports) == DescendingSeq(DOMAIN supports)

\* total_supports.into_iter(): the winners of the BTreeMap by ascending key
WinnersInOrder(supports) == SortedSeq(DOMAIN supports)

\* the winners decorated in BTreeMap order; a failed prefs read is replaced by
\* the default prefs
decorate ==
    /\ pc = "decorate"
    /\ \E failed \in (IF chain.transport = "lossy" THEN SUBSET DOMAIN total_supports
                      ELSE {{}}) :
          LET winners == WinnersInOrder(total_supports)
          IN result' = Some(Ok([active_validators |->
                 [i \in 1..Len(winners) |->
                     Decorate(winners[i], total_supports[winners[i]],
                              get_validator_prefs(winners[i], winners[i] \in failed))]]))
    /\ pc' = "finished"
    /\ UNCHANGED <<cfgVars, httpVars, mainVars, keyVars, chain, block_details, staking_config, voters,
                   nominator_futures, validators_futures, snapshot, params,
                   mine_input, total_supports>>

\* ------------------------------------------------------------ HTTP handlers

\* no HTTP exchange: the service is called directly
NoExchange == [handler |-> "none", block |-> None, stage |-> "none", response |-> None]

\* the `block` query parameter of a request: absent, "latest", a hash, no hash
BlockTexts == {None, Some("latest"), Some("0x2a"), Some("head")}

\* H256::from_str
H256_from_str(text) == IF text = "0x2a" THEN Ok(text) ELSE Err("Invalid block")

\* parse_block: None and "latest" are the latest block, else the text is a hash
parse_block(block) ==
    IF block = None \/ block = Some("latest") THEN Ok(None)
    ELSE LET hash == H256_from_str(block[1])
         IN IF hash.ok THEN Ok(Some(hash.val)) ELSE Err("Invalid block")

\* (StatusCode, Json(Response { result, error }))
Response(status, output, error) == [status |-> status, result |-> output, error |-> error]

\* match on the service's Result: Ok is 200 with the output, Err is 500
ServiceResponse(returned) ==
    IF returned.ok THEN Response(200, Some(returned.val), None)
    ELSE Response(500, None, Some(returned.err))

\* the head of a handler: parse_block, 400 on an invalid block, else the
\* service is called
parse_request(handler) ==
    /\ http.stage = "received"
    /\ http.handler = handler
    /\ LET block == parse_block(http.block)
       IN http' = IF block.ok THEN [http EXCEPT !.stage = "serving"]
                  ELSE [http EXCEPT !.stage = "responded",
                                    !.response = Some(Response(400, None, Some(block.err)))]
    /\ UNCHANGED <<cfgVars, snapVars, simVars, mainVars, keyVars>>

\* the tail of a handler: the response to what the service returned
send_response(handler) ==
    /\ http.stage = "serving"
    /\ http.handler = handler
    /\ pc = "finished"
    /\ http' = [http EXCEPT !.stage = "responded",
                            !.response = Some(ServiceResponse(result[1]))]
    /\ UNCHANGED <<cfgVars, snapVars, simVars, mainVars, keyVars>>

\* simulate_handler up to the call of the service
simulate_request == parse_request("simulate")

\* simulate_handler from the service's return
simulate_response == send_response("simulate")

\* snapshot_handler up to the call of the service
snapshot_request == parse_request("snapshot")

\* snapshot_handler from the service's return
snapshot_response == send_response("snapshot")

\* SnapshotNominator of a voter
SnapshotNominatorOf(voter) ==
    [stash |-> to_ss58check(voter[1]),
     stake |-> voter[2],
     nominations |-> [i \in 1..Len(voter[3]) |-> to_ss58check(voter[3][i])]]

\* SnapshotValidator of a target and its prefs
SnapshotValidatorOf(target, validator_prefs) ==
    [stash |-> to_ss58check(target),
     commission |-> [parts |-> validator_prefs.commission, of |-> 1000000000],
     blocked |-> validator_prefs.blocked]

\* SnapshotService::build after get_block_details: the reconstruction's error
\* wrapped, else the prefs of every target joined into a Result, and the
\* Snapshot of validators, nominators and config
build ==
    /\ pc = "done"
    /\ IF ~snapshot[1].ok
       THEN result' = Some(Err([context |-> "Error getting snapshot data",
                                cause |-> snapshot[1].err]))
       ELSE LET targets == snapshot[1].val.targets
                all_voters == Flatten(snapshot[1].val.voters)
            IN \E failed \in (IF chain.transport = "lossy"
                              THEN SUBSET (1..Len(targets)) ELSE {{}}) :
                  LET prefs == [i \in 1..Len(targets) |->
                                   get_validator_prefs(targets[i], i \in failed)]
                      errors == SelectSeq(prefs, LAMBDA read : ~read.ok)
                  IN result' =
                        IF errors # <<>>
                        THEN Some(Err([context |-> "Error getting validator prefs",
                                       cause |-> errors[1].err]))
                        ELSE Some(Ok([validators |->
                                          [i \in 1..Len(targets) |->
                                              SnapshotValidatorOf(targets[i], prefs[i].val)],
                                      nominators |->
                                          [i \in 1..Len(all_voters) |->
                                              SnapshotNominatorOf(all_voters[i])],
                                      config |-> staking_config]))
    /\ pc' = "finished"
    /\ UNCHANGED <<cfgVars, httpVars, mainVars, keyVars, chain, block_details, staking_config, voters,
                   nominator_futures, validators_futures, snapshot, params,
                   mine_input, total_supports>>

\* ------------------------------------------------------------ get_all_keys

\* most blocks of the node's chain
MaxBlocks == 2
\* most keys under the prefix
MaxKeys == 4
\* page_size of get_all_keys (1000 in the source), scaled to the key sets
page_size == 2

\* no enumeration modelled: the keys come from the chain record
NoEnumeration ==
    /\ node = None
    /\ enumeration = None

\* the last element of a sequence
Last(s) == s[Len(s)]

\* state_getKeysPaged of the node: the first `count` keys of the block under
\* the prefix that follow start_key, in key order
KeysPaged(stored, count, start_key) ==
    Truncate(SortedSeq({k \in stored : start_key = None \/ k > start_key[1]}), count)

\* the block an RPC with the given `at` is answered from: the head for null
ServedFrom(at) == IF at = None THEN node.head ELSE at[1]

\* the loop ends after its first page
FirstPageIsLast(keys) == TRUE

\* if keys.len() < page_size { break; }
PageIsLast(keys) == Len(keys) < page_size

\* get_block_details(block): get_storage pins the storage of the block, or of
\* the latest block, and block_hash = block is what the enumeration is given
get_storage ==
    /\ enumeration = None
    /\ \E block \in {None} \cup {Some(b) : b \in 1..node.head} :
          enumeration' = Some([storage |-> ServedFrom(block),
                               at |-> block,
                               pc |-> "paging",
                               all_keys |-> <<>>,
                               start_key |-> None,
                               returned |-> None])
    /\ UNCHANGED <<cfgVars, snapVars, simVars, httpVars, mainVars, node>>

\* the keys of a block: those of its parent, or with one account's entry
\* inserted or removed by the block's extrinsics
NextKeySets(stored) ==
    {stored} \cup {(stored \ {k}) \cup ({k} \ stored) : k \in 1..MaxKeys}

\* the chain grows by a block while the tool runs
new_block ==
    /\ node.head < MaxBlocks
    /\ \E stored \in NextKeySets(node.keys[node.head]) :
          node' = [node EXCEPT !.head = node.head + 1,
                               !.keys = Append(node.keys, stored)]
    /\ UNCHANGED <<cfgVars, snapVars, simVars, httpVars, mainVars, enumeration>>

\* one iteration of the loop of get_all_keys: get_keys_paged(..).await?, break
\* on an empty page, extend, break on a short page, else continue from the
\* last key
get_all_keys ==
    /\ enumeration # None
    /\ enumeration[1].pc = "paging"
    /\ \E failed \in BOOLEAN :
          LET e == enumeration[1]
              block == ServedFrom(e.at)
              keys == KeysPaged(node.keys[block], page_size, e.start_key)
          IN /\ node' = [node EXCEPT !.served = Append(node.served, block)]
             /\ enumeration' =
                   IF failed
                   THEN Some([e EXCEPT !.pc = "returned",
                                       !.returned = Some(Err("Error getting keys paged"))])
                   ELSE IF keys = <<>>
                   THEN Some([e EXCEPT !.pc = "accounts",
                                       !.returned = Some(Ok(e.all_keys))])
                   ELSE IF PageIsLast(keys)
                   THEN Some([e EXCEPT !.pc = "accounts",
                                       !.all_keys = e.all_keys \o keys,
                                       !.returned = Some(Ok(e.all_keys \o keys))])
                   ELSE Some([e EXCEPT !.all_keys = e.all_keys \o keys,
                                       !.start_key = Some(Last(keys))])
    /\ UNCHANGED <<cfgVars, snapVars, simVars, httpVars, mainVars>>

\* enumerate_accounts after get_all_keys: the accounts sorted and deduplicated
accounts_of_keys ==
    /\ enumeration # None
    /\ enumeration[1].pc = "accounts"
    /\ LET keys == enumeration[1].returned[1].val
       IN enumeration' =
             Some([enumeration[1] EXCEPT
                      !.pc = "returned",
                      !.returned = Some(Ok(enumerate_accounts(
                                               {keys[i] : i \in 1..Len(keys)})))])
    /\ UNCHANGED <<cfgVars, snapVars, simVars, httpVars, mainVars, node>>

\* a node whose blocks hold some keys under the prefix, no call made yet
InitKeys ==
    /\ \E stored \in SUBSET (1..MaxKeys) :
          node = [head |-> 1, keys |-> <<stored>>, served |-> <<>>]
    /\ enumeration = None
    /\ metadata = None
    /\ miner_constants = None
    /\ RUNTIME_CONFIG = Unset
    /\ BALANCING_ITERATIONS = 0
    /\ setLog = <<>>
    /\ lastRead = [panic |-> FALSE, value |-> None]
    /\ req = [r \in Requests |-> [pc |-> "idle", iterations |-> 0, observed |-> NoConfig]]
    /\ chain = None
    /\ block_details = None
    /\ pc = "idle"
    /\ staking_config = None
    /\ voters = <<>>
    /\ nominator_futures = <<>>
    /\ validators_futures = <<>>
    /\ snapshot = None
    /\ SimIdle
    /\ http = NoExchange

NextKeys ==
    \/ get_storage
    \/ new_block
    \/ get_all_keys
    \/ accounts_of_keys

SpecKeys == InitKeys /\ [][NextKeys]_vars

\* the loop is not suspended forever: every RPC it awaits is answered
SpecKeysFair == SpecKeys /\ WF_vars(get_all_keys) /\ WF_vars(accounts_of_keys)

\* ------------------------------------------------------ fetch_miner_constants

\* a u32 as its two 16-bit halves
U32(hi, lo) == [hi |-> hi, lo |-> lo]

\* u32::MAX
U32Max == U32(65535, 65535)

\* the constants fetch_miner_constants asks for, in the order it asks
ConstantNames ==
    <<"Pages", "MaxWinnersPerPage", "MaxBackersPerWinner", "VoterSnapshotPerBlock",
      "TargetSnapshotPerBlock", "MaxLength", "MaxNominations">>

\* what fetch_constant returns: the value of the metadata or an error
FetchOutcomes == {Err("Failed to fetch constant"), Ok(U32(0, 4)), Ok(U32(1, 0))}

\* fetch_constant::<u32>(pallet, name)
fetch_constant(name) == metadata[name]

\* Result::unwrap_or that turns every failure into zero
UnwrapOrZero(fetched, default) == IF fetched.ok THEN fetched.val ELSE U32(0, 0)

\* Result::unwrap_or
UnwrapOr(fetched, default) == IF fetched.ok THEN fetched.val ELSE default

\* outside startup: nothing to fetch, nothing fetched
NoFetch ==
    /\ metadata = None
    /\ miner_constants = None

\* fetch_miner_constants: Pages with `?`, every other constant with unwrap_or
fetch_miner_constants ==
    /\ metadata # None
    /\ miner_constants = None
    /\ LET pages == fetch_constant("Pages")
       IN miner_constants' =
            IF ~pages.ok THEN Some(Err(pages.err))
            ELSE Some(Ok(
                [pages |-> pages.val,
                 max_winners_per_page |->
                     UnwrapOr(fetch_constant("MaxWinnersPerPage"), U32(0, 256)),
                 max_backers_per_winner |->
                     UnwrapOr(fetch_constant("MaxBackersPerWinner"), U32Max),
                 voter_snapshot_per_block |->
                     UnwrapOr(fetch_constant("VoterSnapshotPerBlock"), U32(0, 100)),
                 target_snapshot_per_block |->
                     UnwrapOr(fetch_constant("TargetSnapshotPerBlock"), U32(0, 100)),
                 max_length |->
                     UnwrapOr(fetch_constant("MaxLength"), U32(0, 22500)),
                 max_votes_per_voter |->
                     UnwrapOr(fetch_constant("MaxNominations"), U32(0, 16))]))
    /\ UNCHANGED <<cfgVars, snapVars, simVars, httpVars, keyVars, metadata>>

\* the tool at startup, before the constants are fetched: every constant of the
\* metadata present or not
InitFetch ==
    /\ metadata \in [{ConstantNames[i] : i \in DOMAIN ConstantNames} -> FetchOutcomes]
    /\ miner_constants = None
    /\ RUNTIME_CONFIG = Unset
    /\ BALANCING_ITERATIONS = 0
    /\ setLog = <<>>
    /\ lastRead = [panic |-> FALSE, value |-> None]
    /\ req = [r \in Requests |-> [pc |-> "idle", iterations |-> 0, observed |-> NoConfig]]
    /\ chain = None
    /\ block_details = None
    /\ pc = "idle"
    /\ staking_config = None
    /\ voters = <<>>
    /\ nominator_futures = <<>>
    /\ validators_futures = <<>>
    /\ snapshot = None
    /\ SimIdle
    /\ http = NoExchange
    /\ NoEnumeration

NextFetch == fetch_miner_constants

SpecFetch == InitFetch /\ [][NextFetch]_vars

\* ------------------------------------------------------- chains of the model

\* the targets an account nominates
NominationTargets(a) == <<(a % 3) + 1>>

\* the staking entries of account a: Nominators[a], Bonded[a], Ledger[controller]
ProfileIds ==
    {"ok", "low", "huge", "selfnom", "many", "twice", "suppressed", "nonom", "nobond",
     "noledger"}

StakingEntries(a, id) ==
    [nominations |-> IF id = "nonom" THEN None
                     ELSE Some([targets |-> CASE id = "selfnom" -> <<a>>
                                              [] id = "many" ->
                                                    [i \in 1..(MaxVotesPerVoter + 1) |-> i]
                                              [] id = "twice" ->
                                                    NominationTargets(a) \o NominationTargets(a)
                                              [] OTHER -> NominationTargets(a),
                                suppressed |-> (id = "suppressed")]),
     bonded |-> IF id = "nobond" THEN None ELSE Some(a),
     ledger |-> IF id = "noledger" THEN None
                ELSE Some([active |-> CASE id = "low" -> U128(0, 5)
                                          [] id = "huge" -> U128(1, 7)
                                          [] OTHER -> U128(0, 500)])]

\* the runtime constants a chain reports
SnapConstants ==
    [pages : 1..MaxPages, voter_snapshot_per_block : 1..MaxPerBlock,
     target_snapshot_per_block : 1..MaxPerBlock]

\* the largest constants: no page bound is reached
AmpleConstants ==
    [pages |-> MaxPages, voter_snapshot_per_block |-> MaxPerBlock,
     target_snapshot_per_block |-> MaxPerBlock]

\* the bonds Staking.MinNominatorBond / MinValidatorBond hold
BondChoices == {U128(0, 0), U128(0, 10)}

\* a chain without native snapshot
SynthChain(transport, phase, nominatorKeys, validatorKeys, profile, mnb, mvb) ==
    [transport |-> transport,
     phase |-> phase,
     DesiredTargets |-> Some(2),
     MinNominatorBond |-> mnb,
     MinValidatorBond |-> mvb,
     NominatorKeys |-> nominatorKeys,
     ValidatorKeys |-> validatorKeys,
     Nominators |-> [a \in Accounts |-> StakingEntries(a, profile[a]).nominations],
     Bonded |-> [a \in Accounts |-> StakingEntries(a, profile[a]).bonded],
     Ledger |-> [a \in Accounts |-> StakingEntries(a, profile[a]).ledger],
     PagedVoterSnapshot |-> <<>>,
     PagedTargetSnapshot |-> <<>>]

\* the voter pages a chain may store
StoredVoterPages == {None, Some(<<>>), Some(<<<<1, 100, <<2>>>>>>)}

\* the target pages a chain may store
StoredTargetPages == {None, Some(<<>>), Some(<<2>>)}

\* a chain with a native snapshot: voter pages 0..n-1, the targets at n-1
NativeChain(phase, n, voterPages, targetPage) ==
    [transport |-> "reliable",
     phase |-> phase,
     DesiredTargets |-> Some(5),
     MinNominatorBond |-> U128(0, 0),
     MinValidatorBond |-> U128(0, 0),
     NominatorKeys |-> {},
     ValidatorKeys |-> {},
     Nominators |-> [a \in Accounts |-> None],
     Bonded |-> [a \in Accounts |-> None],
     Ledger |-> [a \in Accounts |-> None],
     PagedVoterSnapshot |-> voterPages,
     PagedTargetSnapshot |-> [p \in {n - 1} |-> targetPage]]

\* key sets of at most MaxEnum accounts
KeySets == {K \in SUBSET Accounts : Cardinality(K) <= MaxEnum}

\* every enumerated account regular, every constant free
InitPagingChain ==
    /\ \E c \in SnapConstants : RUNTIME_CONFIG = Some(c)
    /\ \E nk \in KeySets, vk \in KeySets :
          chain = SynthChain("reliable", PhaseOff, nk, vk, [a \in Accounts |-> "ok"],
                             U128(0, 0), U128(0, 0))

\* ample constants, the staking entries and the bonds free
InitReadsChain ==
    /\ RUNTIME_CONFIG = Some(AmpleConstants)
    /\ \E nk \in KeySets, vk \in KeySets, mnb \in BondChoices, mvb \in BondChoices :
       \E profile \in [Accounts -> ProfileIds] :
          /\ \A a \in Accounts \ (nk \cup vk) : profile[a] = "ok"
          /\ Cardinality({a \in Accounts : profile[a] # "ok"}) <= MaxIrregular
          /\ chain = SynthChain("lossy", PhaseSnapshot(1), nk, vk, profile, mnb, mvb)

\* a native snapshot is available
InitNativeChain ==
    /\ \E c \in SnapConstants :
          /\ RUNTIME_CONFIG = Some(c)
          /\ \E phase \in {PhaseSigned(1), PhaseSnapshot(0)} :
             \E voterPages \in [0..(c.pages - 1) -> StoredVoterPages] :
             \E targetPage \in StoredTargetPages :
                chain = NativeChain(phase, c.pages, voterPages, targetPage)

\* ample constants and a reliable transport, the bonds and the active stakes free
InitBondsChain ==
    /\ RUNTIME_CONFIG = Some(AmpleConstants)
    /\ \E nk \in KeySets, vk \in KeySets, mnb \in BondChoices, mvb \in BondChoices :
       \E profile \in [Accounts -> {"ok", "low", "huge", "selfnom"}] :
          /\ \A a \in Accounts \ (nk \cup vk) : profile[a] = "ok"
          /\ Cardinality({a \in Accounts : profile[a] # "ok"}) <= MaxIrregular
          /\ chain = SynthChain("reliable", PhaseOff, nk, vk, profile, mnb, mvb)

\* ample constants and a lossy transport, every enumerated account regular
InitLossyChain ==
    /\ RUNTIME_CONFIG = Some(AmpleConstants)
    /\ \E vk \in {{1}, {1, 2}} :
          chain = SynthChain("lossy", PhaseOff, {3}, vk, [a \in Accounts |-> "ok"],
                             U128(0, 0), U128(0, 0))

\* a native snapshot whose first voter page is ordered by stake, as the chain's
\* voter list is, the other pages empty
InitStakeOrderedChain ==
    /\ RUNTIME_CONFIG = Some(AmpleConstants)
    /\ \E phase \in {PhaseSigned(1), PhaseSnapshot(0)} :
          chain = NativeChain(phase, MaxPages,
                              [p \in 0..(MaxPages - 1) |->
                                  IF p = 0 THEN Some(<<<<3, 300, <<2>>>>, <<1, 100, <<2>>>>>>)
                                  ELSE Some(<<>>)],
                              Some(<<2>>))

\* the constants are set, no call has started
CallStart ==
    /\ BALANCING_ITERATIONS = 0
    /\ setLog = <<[value |-> RUNTIME_CONFIG[1], outcome |-> "ok"]>>
    /\ lastRead = [panic |-> FALSE, value |-> None]
    /\ req = [r \in Requests |-> [pc |-> "idle", iterations |-> 0, observed |-> NoConfig]]
    /\ block_details = None
    /\ pc = "idle"
    /\ staking_config = None
    /\ voters = <<>>
    /\ nominator_futures = <<>>
    /\ validators_futures = <<>>
    /\ snapshot = None
    /\ SimIdle

\* a call of the service without HTTP exchange
DirectCall ==
    /\ CallStart
    /\ http = NoExchange
    /\ NoFetch
    /\ NoEnumeration

\* a call of get_snapshot_data_from_multi_block (build, simulate) on some chain
InitSnap ==
    /\ InitPagingChain \/ InitReadsChain \/ InitNativeChain
    /\ DirectCall

NextSnap ==
    \/ get_block_details
    \/ get_snapshot_data_from_multi_block

SpecSnap == InitSnap /\ [][NextSnap]_vars

\* a call of simulate on some chain
InitSim ==
    /\ \/ InitPagingChain
       \/ InitBondsChain
       \/ InitNativeChain
       \/ InitLossyChain
       \/ InitStakeOrderedChain
    /\ DirectCall

NextSim ==
    \/ get_block_details
    \/ get_snapshot_data_from_multi_block
    \/ simulate_fails
    \/ min_bond_filters
    \/ manual_override(SimOverrides)
    \/ mine
    \/ decorate

SpecSim == InitSim /\ [][NextSim]_vars

\* ------------------------------------------------ the handlers over HTTP

\* the chains of the requests: native snapshots stored or missing, and a
\* synthesised one over a lossy transport
InitHttpChain ==
    \/ InitNativeChain
    \/ /\ RUNTIME_CONFIG = Some(AmpleConstants)
       /\ \E vk \in {{}, {1}, {2}} :
             chain = SynthChain("lossy", PhaseOff, {3}, vk, [a \in Accounts |-> "ok"],
                                U128(0, 0), U128(0, 0))

\* a request to POST /simulate or GET /snapshot has arrived
InitHttp ==
    /\ InitHttpChain
    /\ CallStart
    /\ NoFetch
    /\ NoEnumeration
    /\ \E handler \in {"simulate", "snapshot"}, block \in BlockTexts :
          http = [handler |-> handler, block |-> block, stage |-> "received",
                  response |-> None]

\* the service of a handler runs between its request and its response
NextHttp ==
    \/ simulate_request
    \/ snapshot_request
    \/ /\ http.stage = "serving"
       /\ \/ get_block_details
          \/ get_snapshot_data_from_multi_block
    \/ /\ http.stage = "serving"
       /\ http.handler = "simulate"
       /\ \/ simulate_fails
          \/ min_bond_filters
          \/ manual_override(SimOverrides)
          \/ mine
          \/ decorate
    \/ /\ http.stage = "serving"
       /\ http.handler = "snapshot"
       /\ build
    \/ simulate_response
    \/ snapshot_response

SpecHttp == InitHttp /\ [][NextHttp]_vars

\* ------------------------------------------------ every phase of the election

\* the most blocks or pages left that a phase carries
MaxLeft == 1

\* the phases of the election pallet
Phases ==
    {PhaseOff, PhaseDone, PhaseEmergency}
    \cup {[tag |-> tag, n |-> n] :
             tag \in {"Signed", "SignedValidation", "Unsigned", "Snapshot", "Export"},
             n \in 0..MaxLeft}

\* a chain that holds snapshot pages and staking entries at once
StoredChain(phase, n, voterPages, targetPage) ==
    [NativeChain(phase, n, voterPages, targetPage) EXCEPT
        !.NominatorKeys = {3},
        !.ValidatorKeys = {1},
        !.Nominators = [a \in Accounts |-> StakingEntries(a, "ok").nominations],
        !.Bonded = [a \in Accounts |-> StakingEntries(a, "ok").bonded],
        !.Ledger = [a \in Accounts |-> StakingEntries(a, "ok").ledger]]

\* a call of get_snapshot_data_from_multi_block in any phase
InitPhase ==
    /\ \E pages \in 1..MaxPages :
          /\ RUNTIME_CONFIG = Some([AmpleConstants EXCEPT !.pages = pages])
          /\ \E phase \in Phases :
             \E voterPages \in [0..(pages - 1) -> StoredVoterPages] :
             \E targetPage \in StoredTargetPages :
                chain = StoredChain(phase, pages, voterPages, targetPage)
    /\ DirectCall

NextPhase == NextSnap

SpecPhase == InitPhase /\ [][NextPhase]_vars

\* ------------------------------------------------- manual override, alone

\* the sequences over S of length at most n
SeqsUpTo(S, n) == UNION {[1..k -> S] : k \in 0..n}

\* the sequences without repetition
DupFree(s) == \A i \in 1..Len(s) : \A j \in 1..Len(s) : s[i] = s[j] => i = j

\* account texts of an override, one of them no account
Texts == {to_ss58check(a) : a \in Accounts} \cup {BadText}

\* the voters an override adds
OverrideVoters ==
    {<<to_ss58check(1), 100, <<to_ss58check(1)>>>>,
     <<to_ss58check(3), 100, <<to_ss58check(1)>>>>,
     <<to_ss58check(3), 200, <<to_ss58check(2), to_ss58check(1)>>>>,
     <<BadText, 100, <<to_ss58check(1)>>>>,
     <<to_ss58check(2), 100, <<BadText>>>>}

\* overrides of the candidates, overrides of the voters, and the mixed ones
Overrides ==
    {[voters |-> <<>>, voters_remove |-> <<>>, candidates |-> c, candidates_remove |-> r] :
        c \in SeqsUpTo(Texts, MaxAddLen), r \in SeqsUpTo(Texts, MaxRemoveLen)}
    \cup
    {[voters |-> v, voters_remove |-> r, candidates |-> <<>>, candidates_remove |-> <<>>] :
        v \in SeqsUpTo(OverrideVoters, MaxAddLen), r \in SeqsUpTo(Texts, MaxRemoveLen)}
    \cup SimOverrides

\* the voters of a snapshot: accounts may repeat (a nominator that is a validator)
SnapshotVoters == {<<a, 50, <<1>>>> : a \in Accounts}

\* simulate at its manual override, holding a snapshot of targets or of voters
InitOverride ==
    /\ \E c \in SnapConstants :
          /\ c.pages = MaxPages
          /\ RUNTIME_CONFIG = Some(c)
          /\ \/ \E targets \in {t \in SeqsUpTo(Accounts, MaxSnapshotLen) :
                                   DupFree(t) /\ Len(t) <= c.target_snapshot_per_block} :
                   snapshot = Some(Ok([voters |-> <<>>, targets |-> targets]))
             \/ \E all_voters \in SeqsUpTo(SnapshotVoters, MaxSnapshotLen) :
                   snapshot = Some(Ok([voters |-> Chunks(all_voters,
                                                         c.voter_snapshot_per_block),
                                       targets |-> <<>>]))
    /\ BALANCING_ITERATIONS = 0
    /\ setLog = <<[value |-> RUNTIME_CONFIG[1], outcome |-> "ok"]>>
    /\ lastRead = [panic |-> FALSE, value |-> None]
    /\ req = [r \in Requests |-> [pc |-> "idle", iterations |-> 0, observed |-> NoConfig]]
    /\ chain = None
    /\ block_details = None
    /\ pc = "override"
    /\ staking_config = None
    /\ voters = <<>>
    /\ nominator_futures = <<>>
    /\ validators_futures = <<>>
    /\ SimIdle
    /\ http = NoExchange
    /\ NoFetch
    /\ NoEnumeration

NextOverride == manual_override(Overrides)

SpecOverride == InitOverride /\ [][NextOverride]_vars

\* no reconstruction is under way
SnapIdle ==
    /\ chain = None
    /\ block_details = None
    /\ pc = "idle"
    /\ staking_config = None
    /\ voters = <<>>
    /\ nominator_futures = <<>>
    /\ validators_futures = <<>>
    /\ snapshot = None
    /\ SimIdle
    /\ http = NoExchange
    /\ NoFetch
    /\ NoEnumeration

\* the process at its start: nothing set, no request
InitStore ==
    /\ RUNTIME_CONFIG = Unset
    /\ BALANCING_ITERATIONS = 0
    /\ setLog = <<>>
    /\ lastRead = [panic |-> FALSE, value |-> None]
    /\ req = [r \in Requests |-> [pc |-> "idle", iterations |-> 0, observed |-> NoConfig]]
    /\ SnapIdle

NextStore ==
    \/ \E c \in ConstantsChoices : set_runtime_constants(c)
    \/ get_runtime_constants

SpecStore == InitStore /\ [][NextStore]_vars

\* the server when axum::serve starts: main has set the fetched constants once
InitCfg ==
    /\ \E c \in ConstantsChoices :
          /\ RUNTIME_CONFIG = Some(c)
          /\ setLog = <<[value |-> c, outcome |-> "ok"]>>
    /\ BALANCING_ITERATIONS = 0
    /\ lastRead = [panic |-> FALSE, value |-> None]
    /\ req = [r \in Requests |-> [pc |-> "idle", iterations |-> 0, observed |-> NoConfig]]
    /\ SnapIdle

NextCfg ==
    \/ \E r \in Requests : simulate_handler(r)
    \/ \E r \in Requests : simulate_await(r)
    \/ \E r \in Requests : mine_solution(r)
    \/ \E r \in Requests : respond(r)

SpecCfg == InitCfg /\ [][NextCfg]_vars

\* ------------------------------------------------------------------ claims

\* C1: while a request is served, the solver configuration it observes is the
\* one the request itself asked for, whatever the other requests do.
C1_RequestSeesOwnConfig ==
    \A r \in Requests :
        req[r].pc = "solved" => req[r].observed = RequestedBalancing(req[r].iterations)

\* C2: the store is written at most once: only the first set succeeds, the stored
\* value is the first set's, later sets leave it alone, and reads return it.
C2_StoreWrittenOnce ==
    /\ \A i \in 1..Len(setLog) : (setLog[i].outcome = "ok") <=> (i = 1)
    /\ (setLog = <<>>) <=> (RUNTIME_CONFIG = Unset)
    /\ setLog # <<>> => RUNTIME_CONFIG = Some(setLog[1].value)
    /\ lastRead.value # None => setLog # <<>> /\ lastRead.value = Some(setLog[1].value)

\* a second, different set was attempted and a read followed
C2_Witness ==
    /\ Len(setLog) >= 2
    /\ setLog[2].value # setLog[1].value
    /\ setLog[2].outcome = "panic"
    /\ lastRead.value = Some(setLog[1].value)


\* ------------------------------------------------------------ reconstruction

\* a reconstruction has returned a snapshot
Returned == pc = "done" /\ snapshot # None /\ snapshot[1].ok

\* the reconstruction went through the synthesis path
Synthesised == block_details # None /\ ~has_snapshot(block_details.phase)

\* a future has completed with a read error
ReadError(future) == future.out # None /\ ~future.out[1].ok

\* C3: every snapshot the reconstructor returns has at most Pages voter pages,
\* at most VoterSnapshotPerBlock voters in every page and at most
\* TargetSnapshotPerBlock targets.
C3_SnapshotWithinBounds ==
    Returned =>
        /\ Len(snapshot[1].val.voters) <= Pages
        /\ \A p \in 1..Len(snapshot[1].val.voters) :
              Len(snapshot[1].val.voters[p]) <= VoterSnapshotPerBlock
        /\ Len(snapshot[1].val.targets) <= TargetSnapshotPerBlock

\* C5: a read error of any nominator future or validator future makes the
\* reconstruction return an error.
C5_ReadErrorAborts ==
    (/\ pc = "done"
     /\ \/ \E i \in 1..Len(nominator_futures) : ReadError(nominator_futures[i])
        \/ \E i \in 1..Len(validators_futures) : ReadError(validators_futures[i]))
    => ~snapshot[1].ok

\* the voter a completed nominator future of account a emitted
EmittedNominator(a) ==
    LET hits == SelectSeq(nominator_futures,
                          LAMBDA f : f.who = a /\ f.out[1].ok /\ f.out[1].val # None)
    IN [i \in 1..Len(hits) |-> hits[i].out[1].val[1]]

\* the self-voter a completed validator future of account a emitted
EmittedSelfVoter(a) ==
    LET hits == SelectSeq(validators_futures,
                          LAMBDA f : f.who = a /\ f.out[1].ok /\ f.out[1].val[2] # None)
    IN [i \in 1..Len(hits) |-> hits[i].out[1].val[2][1]]

\* the emitted voters by ascending account, nominator entry before self-voter
RECURSIVE EmittedInOrder(_)
EmittedInOrder(accounts) ==
    IF accounts = <<>> THEN <<>>
    ELSE EmittedNominator(Head(accounts)) \o EmittedSelfVoter(Head(accounts))
         \o EmittedInOrder(Tail(accounts))

\* C7: in the synthesis path the concatenated voter pages are the emitted
\* voters in ascending AccountId order, whatever the order in which the reads
\* completed; every page but the last holds exactly VoterSnapshotPerBlock
\* voters and the last page is not empty.
C7_PagesSortedAndChunked ==
    (Returned /\ Synthesised) =>
        LET pages == snapshot[1].val.voters
            all == Flatten(pages)
        IN /\ all = EmittedInOrder(SortedSeq(Accounts))
           /\ \A i \in 1..Len(all) : \A j \in i..Len(all) : all[i][1] <= all[j][1]
           /\ \A p \in 1..Len(pages) :
                 /\ Len(pages[p]) >= 1
                 /\ p < Len(pages) => Len(pages[p]) = VoterSnapshotPerBlock

\* voters collected out of order give a full page followed by a page of one
C7_Witness ==
    /\ Returned /\ Synthesised
    /\ Len(snapshot[1].val.voters) = 2
    /\ VoterSnapshotPerBlock = 2
    /\ Len(snapshot[1].val.voters[1]) = 2
    /\ Len(snapshot[1].val.voters[2]) = 1
    /\ Len(voters) = 2
    /\ voters[1][1] > snapshot[1].val.voters[1][1][1]

\* ------------------------------------------------------------------ simulate

\* C4: when the emitted voters need more than Pages pages the reconstruction
\* fails, and the voter pages handed to the miner are all the voter pages of
\* the snapshot.
C4_CapacityErrorNoSilentDrop ==
    /\ (/\ pc = "done" /\ Synthesised
        /\ \A i \in 1..Len(validators_futures) : ~ReadError(validators_futures[i])
        /\ nominator_futures # <<>> \/ validators_futures # <<>>
        /\ Len(EmittedInOrder(SortedSeq(Accounts))) > VoterSnapshotPerBlock * Pages)
       => ~snapshot[1].ok
    /\ mine_input # None =>
          /\ Len(snapshot[1].val.voters) <= Pages
          /\ mine_input[1].voter_pages = snapshot[1].val.voters

\* C6: simulate over a native snapshot with no voter page stored, an empty
\* target page and 5 desired targets returns no error and no active validator.
C6_EmptyNativeSnapshot ==
    (/\ pc = "finished"
     /\ has_snapshot(chain.phase)
     /\ \A p \in DOMAIN chain.PagedVoterSnapshot : chain.PagedVoterSnapshot[p] = None
     /\ chain.PagedTargetSnapshot[Pages - 1] = Some(<<>>)
     /\ chain.DesiredTargets = Some(5))
    => /\ result[1].ok
       /\ result[1].val.active_validators = <<>>

\* the ledger of an enumerated validator, if its controller and ledger are found
FoundLedger(validator) ==
    IF chain.Bonded[validator] = None THEN None
    ELSE chain.Ledger[chain.Bonded[validator][1]]

\* the chain has no nominator and the single validator V, with 500 active
SingleValidator(V) ==
    /\ ~has_snapshot(chain.phase)
    /\ chain.NominatorKeys = {}
    /\ chain.ValidatorKeys = {V}
    /\ FoundLedger(V) = Some([active |-> U128(0, 500)])

\* simulate returned exactly the winner V backed by itself alone with 500
OnlyWinner(V) ==
    /\ result[1].ok
    /\ Len(result[1].val.active_validators) = 1
    /\ result[1].val.active_validators[1].stash = to_ss58check(V)
    /\ result[1].val.active_validators[1].self_stake = 500
    /\ result[1].val.active_validators[1].total_stake = 500
    /\ result[1].val.active_validators[1].nominations_count = 0

Ids(texts) == {texts[i].id : i \in 1..Len(texts)}

\* how often the account votes in a voter list
VoterCount(all_voters, who) == Cardinality({i \in 1..Len(all_voters) : all_voters[i][1] = who})

\* the voter data of the last entry an override has for the account
LastAdded(manual_voters, who) ==
    LET last == CHOOSE i \in 1..Len(manual_voters) :
                    /\ manual_voters[i][1].id = who
                    /\ \A j \in (i + 1)..Len(manual_voters) : manual_voters[j][1].id # who
    IN <<who, manual_voters[last][2],
         [k \in 1..Len(manual_voters[last][3]) |-> manual_voters[last][3][k].id]>>

\* the first entry of the account in a voter list
FirstOf(all_voters, who) ==
    all_voters[CHOOSE i \in 1..Len(all_voters) :
                   /\ all_voters[i][1] = who
                   /\ \A j \in 1..(i - 1) : all_voters[j][1] # who]

\* what a successful manual override leaves, from the snapshot before it
Overridden(before, after, manual) ==
    /\ \A c \in Ids(manual.candidates_remove) : ~Contains(after.targets, c)
    /\ \A c \in Ids(manual.candidates) \ Ids(manual.candidates_remove) :
          Cardinality({i \in 1..Len(after.targets) : after.targets[i] = c}) = 1
    /\ \A w \in Ids(manual.voters_remove) : VoterCount(Flatten(after.voters), w) = 0
    /\ \A z \in {manual.voters[i][1].id : i \in 1..Len(manual.voters)}
                \ Ids(manual.voters_remove) :
          /\ VoterCount(Flatten(after.voters), z)
                = (IF VoterCount(Flatten(before.voters), z) = 0 THEN 1
                   ELSE VoterCount(Flatten(before.voters), z))
          /\ FirstOf(Flatten(after.voters), z) = LastAdded(manual.voters, z)

\* C9: after a manual override every removed candidate is absent from the
\* targets, every added candidate that is not removed is a target exactly
\* once, every removed voter is absent from the voters, and an added voter
\* that was present is replaced by the added data without a further entry.
C9_OverrideOrder ==
    [][(pc = "override" /\ pc' = "mine" /\ params'.manual_override # None)
       => Overridden(snapshot[1].val, snapshot'[1].val, params'.manual_override[1])]_vars

\* candidate 1 added and candidate 2 removed, voter 3 replaced in front of
\* another voter, voter 2 removed
C9_Witness ==
    /\ pc = "mine"
    /\ params.manual_override # None
    /\ params.manual_override[1] \in SimOverrides
    /\ snapshot[1].val.targets = <<1>>
    /\ Flatten(snapshot[1].val.voters) = <<<<3, 100, <<1>>>>, <<1, 50, <<1>>>>>>

\* C10: applying the override once more to the snapshot an override has left
\* gives the same targets and the same voter pages.
C10_OverrideIdempotent ==
    (pc = "mine" /\ params.manual_override # None)
    => ManualOverride(snapshot[1].val, params.manual_override[1]) = Ok(snapshot[1].val)

\* an override that added a candidate twice and removed none was applied
C10_Witness ==
    /\ pc = "mine"
    /\ params.manual_override # None
    /\ Len(params.manual_override[1].candidates) = 2
    /\ params.manual_override[1].candidates[1] = params.manual_override[1].candidates[2]
    /\ params.manual_override[1].candidates_remove = <<>>
    /\ Len(snapshot[1].val.targets) = 2

\* ------------------------------------------------------------- min bond filter

\* the voter's weight as u128 reaches the threshold
Reaches(voter, threshold) == Geq128(FromU64(voter[2]), threshold)

\* the pages of `after` are the pages of `before` that keep a voter, each
\* reduced to the voters reaching the threshold, pages and voters in order
FilteredPages(before, after, threshold) ==
    LET kept == {p \in 1..Len(before) :
                    \E i \in 1..Len(before[p]) : Reaches(before[p][i], threshold)}
    IN /\ Len(after) = Cardinality(kept)
       /\ \A k \in 1..Len(after) :
             /\ after[k] # <<>>
             /\ \E p \in kept :
                   /\ Cardinality({q \in kept : q < p}) = k - 1
                   /\ after[k] = SelectSeq(before[p],
                                           LAMBDA voter : Reaches(voter, threshold))
       /\ Flatten(after) = SelectSeq(Flatten(before),
                                     LAMBDA voter : Reaches(voter, threshold))

\* C11: a strictly positive min_nominator_bond override keeps exactly the
\* voters whose weight reaches it, in their pages and order, and drops the
\* pages left empty; an absent or zero override leaves the voter pages alone.
C11_MinNominatorBondFilter ==
    [][(pc = "done" /\ snapshot[1].ok /\ pc' # "done")
       => IF params'.min_nominator_bond = None
             \/ params'.min_nominator_bond = Some(U128(0, 0))
          THEN snapshot'[1].val.voters = snapshot[1].val.voters
          ELSE FilteredPages(snapshot[1].val.voters, snapshot'[1].val.voters,
                             params'.min_nominator_bond[1])]_vars

\* the override 100 has dropped a whole page of the synthesised voters and
\* kept another
C11_Witness ==
    /\ pc = "override"
    /\ Synthesised
    /\ params.min_nominator_bond = Some(U128(0, 100))
    /\ snapshot[1].val.voters # <<>>
    /\ Len(snapshot[1].val.voters)
          < Len(Chunks(EmittedInOrder(SortedSeq(Accounts)), VoterSnapshotPerBlock))

\* -------------------------------------------------------------------- result

\* simulate has returned a SimulationResult
Simulated == pc = "finished" /\ result # None /\ result[1].ok

\* the sum of the stakes of a list of entries <<who, stake>>
RECURSIVE SumStakes(_)
SumStakes(entries) ==
    IF entries = <<>> THEN 0 ELSE Head(entries)[2] + SumStakes(Tail(entries))

\* the sum of the stakes of a list of nominations
RECURSIVE SumNominations(_)
SumNominations(nominations) ==
    IF nominations = <<>> THEN 0
    ELSE Head(nominations).stake + SumNominations(Tail(nominations))

\* C12: for every validator of a SimulationResult, total_stake is the sum of
\* the stakes of the voters of its aggregated support, which is self_stake
\* plus the stakes of its nominations, and no nomination is the winner's own.
C12_TotalIsSelfPlusNominations ==
    Simulated =>
        \A i \in 1..Len(result[1].val.active_validators) :
            LET validator == result[1].val.active_validators[i]
            IN /\ validator.total_stake
                     = SumStakes(total_supports[validator.stash.id].voters)
               /\ validator.total_stake
                     = validator.self_stake + SumNominations(validator.nominations)
               /\ \A k \in 1..Len(validator.nominations) :
                     validator.nominations[k].nominator # validator.stash

\* the desired targets the chain reports for the block
ChainReportedTargets ==
    IF chain.DesiredTargets = None THEN 600 ELSE chain.DesiredTargets[1]

C14_WinnersSorted ==
    Simulated =>
        \A i \in 1..Len(result[1].val.active_validators) :
            \A j \in (i + 1)..Len(result[1].val.active_validators) :
                result[1].val.active_validators[i].stash.id
                    < result[1].val.active_validators[j].stash.id

\* a result with two winners, both backed from the second voter page
C14_Witness ==
    /\ Simulated
    /\ Len(result[1].val.active_validators) = 2
    /\ Len(mine_input[1].voter_pages) = 2
    /\ \A w \in DOMAIN total_supports :
          \E i \in 1..Len(mine_input[1].voter_pages[2]) :
              mine_input[1].voter_pages[2][i][1] = total_supports[w].voters[
                  Len(total_supports[w].voters)][1]


\* ------------------------------------------------------------ HTTP handlers

\* the handler has sent its response
Responded == http.stage = "responded" /\ http.response # None

\* the service was called and returned an error
ServiceFailed == pc = "finished" /\ result # None /\ ~result[1].ok

\* the errors of something that does not exist: a snapshot page, an account's
\* entry
NotFoundErrors ==
    {"Voter snapshot not found", "Target snapshot not found", "ValidatorPrefs not found"}

\* what made the service fail
CauseOf(error) == IF http.handler = "snapshot" THEN error.cause ELSE error

\* C15: the status code follows the outcome: 200 with the result and no error
\* on success; 400 on an invalid block, the service not called; 404 when the
\* service failed on something that does not exist; 500 with the error and no
\* result on any other failure of the service.
C15_StatusByErrorKind ==
    Responded =>
        LET response == http.response[1]
        IN /\ ~parse_block(http.block).ok
              => response.status = 400 /\ pc = "idle" /\ result = None
           /\ (parse_block(http.block).ok /\ result[1].ok)
              => /\ response.status = 200
                 /\ response.result # None
                 /\ response.error = None
           /\ (ServiceFailed /\ CauseOf(result[1].err) \in NotFoundErrors)
              => response.status = 404
           /\ (ServiceFailed /\ CauseOf(result[1].err) \notin NotFoundErrors)
              => /\ response.status = 500
                 /\ response.error # None
                 /\ response.result = None


\* ------------------------------------------------------ fetch_miner_constants

\* the defaults of the constants other than Pages
Defaults ==
    [max_winners_per_page |-> U32(0, 256),
     max_backers_per_winner |-> U32Max,
     voter_snapshot_per_block |-> U32(0, 100),
     target_snapshot_per_block |-> U32(0, 100),
     max_length |-> U32(0, 22500),
     max_votes_per_voter |-> U32(0, 16)]

\* the constant of the metadata behind each field
ConstantOf ==
    [pages |-> "Pages",
     max_winners_per_page |-> "MaxWinnersPerPage",
     max_backers_per_winner |-> "MaxBackersPerWinner",
     voter_snapshot_per_block |-> "VoterSnapshotPerBlock",
     target_snapshot_per_block |-> "TargetSnapshotPerBlock",
     max_length |-> "MaxLength",
     max_votes_per_voter |-> "MaxNominations"]

\* C16: fetching the constants fails exactly when Pages cannot be fetched;
\* every other constant that cannot be fetched takes its default (256,
\* u32::MAX, 100, 100, 22500, 16) and every constant that can be fetched
\* takes the fetched value.
C16_OnlyPagesIsFatal ==
    miner_constants # None =>
        /\ ~miner_constants[1].ok <=> ~metadata["Pages"].ok
        /\ miner_constants[1].ok =>
              /\ miner_constants[1].val.pages = metadata["Pages"].val
              /\ \A field \in DOMAIN Defaults :
                    miner_constants[1].val[field] =
                        IF metadata[ConstantOf[field]].ok
                        THEN metadata[ConstantOf[field]].val
                        ELSE Defaults[field]

\* Pages was fetched and no other constant was
C16_Witness ==
    /\ miner_constants # None
    /\ miner_constants[1].ok
    /\ \A field \in DOMAIN Defaults : ~metadata[ConstantOf[field]].ok
    /\ miner_constants[1].val.max_backers_per_winner = U32Max
    /\ miner_constants[1].val.max_length = U32(0, 22500)


\* -------------------------------------------------- request-scoped binding

\* the request's solver is running on the blocking worker
OnBlockingWorker(r) == req[r].pc = "mining"

\* no request is inside its binding
OutsideAnyScope == \A r \in Requests : req[r].pc = "idle"

\* the solver of request r would now be built with the request's own choice
SeesBound(r) == BalancingIterationsGet = RequestedBalancing(req[r].iterations)

\* C17: for as long as the solver of a request is on the blocking worker, the
\* balancing configuration it reads is the one bound for that request, and
\* code outside every request scope reads the default (no balancing).
C17_WorkerSeesBoundConfig ==
    /\ \A r \in Requests : OnBlockingWorker(r) => SeesBound(r)
    /\ OutsideAnyScope => BalancingIterationsGet = NoConfig


\* ------------------------------------------------------------- has_snapshot

\* the phases in which the pallet holds a complete snapshot
SnapshotPhases ==
    {phase \in Phases :
        \/ phase.tag \in {"Done", "Signed", "SignedValidation", "Unsigned", "Export"}
        \/ phase.tag = "Snapshot" /\ phase.n = 0}

\* the snapshot pages as the chain stores them
StoredSnapshot ==
    [voters |-> [p \in 1..block_details.n_pages |-> chain.PagedVoterSnapshot[p - 1][1]],
     targets |-> chain.PagedTargetSnapshot[block_details.n_pages - 1][1]]

\* C18: has_snapshot is true exactly for Snapshot(0), Done, Signed, SignedValidation,
\* Unsigned and Export; the reconstruction reads the stored pages iff it is true
\* and otherwise builds the snapshot from the staking entries.
C18_NativeIffHasSnapshot ==
    block_details # None =>
        LET available == block_details.phase \in SnapshotPhases
        IN /\ has_snapshot(block_details.phase) <=> available
           /\ pc = "native" => available
           /\ pc = "synth" => ~available
           /\ Returned =>
                 IF available
                 THEN /\ snapshot[1].val = StoredSnapshot
                      /\ nominator_futures = <<>>
                      /\ validators_futures = <<>>
                 ELSE /\ Flatten(snapshot[1].val.voters)
                            = EmittedInOrder(SortedSeq(Accounts))
                      /\ snapshot[1].val.targets = SortedSeq(chain.ValidatorKeys)
                      /\ nominator_futures # <<>>

\* the snapshot is still being created: the stored pages are there and complete,
\* and the returned snapshot is the synthesised one
C18_Witness ==
    /\ Returned
    /\ block_details.phase = PhaseSnapshot(1)
    /\ \A p \in DOMAIN chain.PagedVoterSnapshot :
          chain.PagedVoterSnapshot[p] = Some(<<<<1, 100, <<2>>>>>>)
    /\ chain.PagedTargetSnapshot[block_details.n_pages - 1] = Some(<<2>>)
    /\ Flatten(snapshot[1].val.voters) # <<>>
    /\ snapshot[1].val.targets = <<1>>


\* -------------------------------------------------------------- native path

\* every page the native path reads is stored
AllStored ==
    /\ \A p \in 0..(block_details.n_pages - 1) :
          p \in DOMAIN chain.PagedVoterSnapshot /\ chain.PagedVoterSnapshot[p] # None
    /\ (block_details.n_pages - 1) \in DOMAIN chain.PagedTargetSnapshot
    /\ chain.PagedTargetSnapshot[block_details.n_pages - 1] # None

\* C19: on the native path the voters are the stored pages 0 .. n_pages - 1 in
\* ascending page index, exactly n_pages of them, the targets are the stored
\* page n_pages - 1, and a missing page makes the reconstruction fail.
C19_NativePagesInOrder ==
    (block_details # None /\ has_snapshot(block_details.phase)) =>
        /\ pc = "native" =>
              /\ Len(voters) <= block_details.n_pages
              /\ \A p \in 1..Len(voters) : Some(voters[p]) = chain.PagedVoterSnapshot[p - 1]
        /\ (pc = "done" /\ snapshot # None) =>
              IF AllStored
              THEN /\ snapshot[1].ok
                   /\ Len(snapshot[1].val.voters) = block_details.n_pages
                   /\ \A p \in 1..block_details.n_pages :
                         Some(snapshot[1].val.voters[p]) = chain.PagedVoterSnapshot[p - 1]
                   /\ Some(snapshot[1].val.targets)
                         = chain.PagedTargetSnapshot[block_details.n_pages - 1]
              ELSE ~snapshot[1].ok

\* two stored pages that differ were returned in their order
C19_Witness ==
    /\ Returned
    /\ has_snapshot(block_details.phase)
    /\ block_details.n_pages = 2
    /\ chain.PagedVoterSnapshot[0] = Some(<<>>)
    /\ chain.PagedVoterSnapshot[1] = Some(<<<<1, 100, <<2>>>>>>)
    /\ snapshot[1].val.voters = <<<<>>, <<<<1, 100, <<2>>>>>>>>
    /\ snapshot[1].val.targets = <<2>>


\* ------------------------------------------------------ emitted nominators

\* the staking entries of a nominator let it vote: nominations present and not
\* suppressed, a controller bonded, its ledger present with active at least
\* the minimum nominator bond
Qualifies(nominator) ==
    LET nominations == chain.Nominators[nominator]
        controller == chain.Bonded[nominator]
    IN /\ nominations # None
       /\ ~nominations[1].suppressed
       /\ controller # None
       /\ chain.Ledger[controller[1]] # None
       /\ Geq128(chain.Ledger[controller[1]][1].active, staking_config.min_nominator_bond)

\* C20: in the synthesis path an enumerated nominator is emitted as a voter iff
\* its staking entries qualify; hence, when the minimum nominator bond is
\* positive, every voter of the snapshot has a weight of at least that bond.
C20_EmittedIffQualifies ==
    (Returned /\ Synthesised) =>
        /\ \A nominator \in chain.NominatorKeys :
              (EmittedNominator(nominator) # <<>>) <=> Qualifies(nominator)
        /\ staking_config.min_nominator_bond # U128(0, 0) =>
              \A p \in 1..Len(snapshot[1].val.voters) :
                 \A i \in 1..Len(snapshot[1].val.voters[p]) :
                    Reaches(snapshot[1].val.voters[p][i], staking_config.min_nominator_bond)


\* ------------------------------------------------------ synthesised targets

\* the ledger of the validator's controller is found and its active stake
\* reaches the bond
LedgerReaches(validator, bond) ==
    /\ chain.Bonded[validator] # None
    /\ chain.Ledger[chain.Bonded[validator][1]] # None
    /\ Geq128(chain.Ledger[chain.Bonded[validator][1]][1].active, bond)

\* C21: the synthesised target page is the enumerated validator stashes; when
\* min_validator_bond is positive exactly those whose ledger active stake
\* reaches it, and when it is 0 every enumerated validator stash.
C21_TargetsFilteredOnlyWhenPositive ==
    (Returned /\ Synthesised) =>
        snapshot[1].val.targets =
            IF staking_config.min_validator_bond # U128(0, 0)
            THEN SelectSeq(SortedSeq(chain.ValidatorKeys),
                           LAMBDA validator :
                               LedgerReaches(validator, staking_config.min_validator_bond))
            ELSE SortedSeq(chain.ValidatorKeys)


\* ----------------------------------------------------- targets of a voter

\* the nominations of an account as the chain stores them
StoredTargets(nominator) == chain.Nominators[nominator][1].targets

\* the first n elements of a sequence
FirstOnes(s, n) == [i \in 1..(IF Len(s) < n THEN Len(s) ELSE n) |-> s[i]]

\* C22: every voter of a synthesised snapshot has at most MaxVotesPerVoter
\* targets and lists no account twice; an emitted nominator keeps the first
\* MaxVotesPerVoter of its stored nominations in their order.
C22_TargetsBoundedAndDistinct ==
    (Returned /\ Synthesised) =>
        /\ \A p \in 1..Len(snapshot[1].val.voters) :
              \A i \in 1..Len(snapshot[1].val.voters[p]) :
                 /\ Len(snapshot[1].val.voters[p][i][3]) <= MaxVotesPerVoter
                 /\ DupFree(snapshot[1].val.voters[p][i][3])
        /\ \A nominator \in chain.NominatorKeys :
              \A i \in 1..Len(EmittedNominator(nominator)) :
                 EmittedNominator(nominator)[i][3]
                    = FirstOnes(StoredTargets(nominator), MaxVotesPerVoter)


\* ------------------------------------------------------- weight of a voter

\* the active stake of the ledger of an account's controller
ActiveOf(account) == chain.Ledger[chain.Bonded[account][1]][1].active

\* weight is active saturated to 64 bits: active itself below 2^64, and above
\* it 2^64 - 1, which is not the low word of any active stake of these chains
SaturatedTo64(weight, active) == active.hi = 0 /\ weight = active.lo

\* C23: the weight of every synthesised voter, nominator or self-voter, is its
\* ledger.active saturated to 64 bits and never ledger.active modulo 2^64.
C23_WeightSaturates ==
    (Returned /\ Synthesised) =>
        \A account \in Accounts :
            /\ \A i \in 1..Len(EmittedNominator(account)) :
                  SaturatedTo64(EmittedNominator(account)[i][2], ActiveOf(account))
            /\ \A i \in 1..Len(EmittedSelfVoter(account)) :
                  SaturatedTo64(EmittedSelfVoter(account)[i][2], ActiveOf(account))


\* ------------------------------------------------------ voters partitioned

\* the accounts of the voters of all pages, in page order
VoterAccounts(voter_pages) ==
    [i \in 1..Len(Flatten(voter_pages)) |-> Flatten(voter_pages)[i][1]]

\* C24: in a synthesised snapshot every account is a voter at most once across
\* all voter pages, also when it is enumerated as nominator and as validator.
C24_VotersPartitioned ==
    (Returned /\ Synthesised) => DupFree(VoterAccounts(snapshot[1].val.voters))


\* ------------------------------------------------ min_validator_bond override

\* C25: with a strictly positive min_validator_bond override the targets passed
\* on are exactly the snapshot targets whose controller's ledger has active of
\* at least the threshold, in their order, unless a read error fails simulate;
\* with the override absent or 0 the target page is unchanged.
C25_MinValidatorBondFilter ==
    [][(pc = "done" /\ snapshot[1].ok /\ pc' # "done")
       => IF params'.min_validator_bond = None
             \/ params'.min_validator_bond = Some(U128(0, 0))
          THEN /\ pc' = "override"
               /\ snapshot'[1].val.targets = snapshot[1].val.targets
          ELSE \/ /\ pc' = "override"
                  /\ snapshot'[1].val.targets
                        = SelectSeq(snapshot[1].val.targets,
                                    LAMBDA validator :
                                        LedgerReaches(validator,
                                                      params'.min_validator_bond[1]))
               \/ /\ pc' = "finished"
                  /\ chain.transport = "lossy"
                  /\ snapshot[1].val.targets # <<>>
                  /\ ~result'[1].ok]_vars

\* a synthesised target of active 5 was dropped by the override of 100 and the
\* other one was kept
C25_Witness ==
    /\ pc = "override"
    /\ Synthesised
    /\ staking_config.min_validator_bond = U128(0, 0)
    /\ params.min_validator_bond = Some(U128(0, 100))
    /\ chain.ValidatorKeys = {1, 2}
    /\ ActiveOf(1) = U128(0, 5)
    /\ snapshot[1].val.targets = <<2>>


\* ---------------------------------------------------- aggregated supports

\* the pages whose supports hold winner w
PagesOf(paged_supports, w) ==
    {p \in 1..Len(paged_supports) : w \in DOMAIN paged_supports[p]}

\* the sum of the totals of winner w over the pages up to page p
RECURSIVE SumPageTotals(_, _, _)
SumPageTotals(paged_supports, w, p) ==
    IF p = 0 THEN 0
    ELSE SumPageTotals(paged_supports, w, p - 1)
         + (IF w \in DOMAIN paged_supports[p] THEN paged_supports[p][w].total ELSE 0)

\* the stakes with which account a backs winner w in the pages
PageStakes(paged_supports, w, a) ==
    UNION {{paged_supports[p][w].voters[i][2] :
               i \in {i \in 1..Len(paged_supports[p][w].voters) :
                         paged_supports[p][w].voters[i][1] = a}} :
           p \in PagesOf(paged_supports, w)}

\* the support of every winner is the aggregate of its page supports: the sum
\* of the totals, and one entry per voter with the largest of its page stakes
Aggregated(paged_supports, supports) ==
    \A w \in DOMAIN supports :
        /\ supports[w].total = SumPageTotals(paged_supports, w, Len(paged_supports))
        /\ \A i \in 1..Len(supports[w].voters) :
              LET a == supports[w].voters[i][1]
              IN /\ \A j \in 1..Len(supports[w].voters) :
                       supports[w].voters[j][1] = a => j = i
                 /\ \A stake \in PageStakes(paged_supports, w, a) :
                       supports[w].voters[i][2] >= stake
                 /\ supports[w].voters[i][2] \in PageStakes(paged_supports, w, a)
        /\ \A p \in PagesOf(paged_supports, w) :
              \A i \in 1..Len(paged_supports[p][w].voters) :
                 \E j \in 1..Len(supports[w].voters) :
                    supports[w].voters[j][1] = paged_supports[p][w].voters[i][1]

\* C26: the merged support of a winner has the sum of its page totals as total
\* and lists each voter once; a voter that backs the winner in more than one
\* page has a single entry with the maximum of its per-page stakes.
C26_VotersMergedByMaximum ==
    (pc = "decorate" /\ mine_input # None) =>
        \A e \in Elections(mine_input[1].desired_targets, mine_input[1].all_targets,
                           Flatten(mine_input[1].voter_pages)) :
            LET paged_supports == PagedSupports(e, mine_input[1].voter_pages)
            IN MergeSupports(NoSupports, paged_supports) = total_supports
               => Aggregated(paged_supports, total_supports)


\* ------------------------------------------------------ order of nominations

\* C27: the nominations of every validator of a SimulationResult are sorted
\* ascending by nominator account, whatever the order of the voters in the
\* pages.
C27_NominationsSorted ==
    Simulated =>
        \A v \in 1..Len(result[1].val.active_validators) :
            LET nominations == result[1].val.active_validators[v].nominations
            IN \A i \in 1..Len(nominations) : \A j \in 1..Len(nominations) :
                  i < j => nominations[i].nominator.id <= nominations[j].nominator.id


\* ------------------------------------------------------ prefs of the winners

\* the commission and blocked of a validator are the ones Staking.Validators
\* holds for its stash
PrefsFromChain(validator) ==
    /\ validator.stash.id \in chain.ValidatorKeys
    /\ validator.commission.parts = StoredPrefs(validator.stash.id).commission
    /\ validator.blocked = StoredPrefs(validator.stash.id).blocked

\* C28: a failed ValidatorPrefs read of a winner fails the simulation: every
\* validator of a SimulationResult carries the commission and blocked that were
\* read from the chain.
C28_PrefsReadOrFail ==
    Simulated =>
        \A v \in 1..Len(result[1].val.active_validators) :
            PrefsFromChain(result[1].val.active_validators[v])

\* ---------------------------------------------------------------- C29

\* the keys under the prefix in the blocks the node answered from
ServedKeys == {node.keys[node.served[i]] : i \in 1..Len(node.served)}

\* every call was answered from one key set
StablePrefix == Cardinality(ServedKeys) = 1

\* the key set of a stable prefix
PrefixKeys == CHOOSE stored \in ServedKeys : TRUE

\* the enumeration is at the given step
EnumerationAt(step) == enumeration # None /\ enumeration[1].pc = step

\* get_all_keys has returned its key list
KeysReturned == EnumerationAt("accounts")

\* what get_all_keys returns is every key of the prefix, once, after one call
\* per full page and one more; while it pages it continues from the last key
\* received and holds the keys up to it; a failure carries no key list
AllKeysOnce ==
    /\ (KeysReturned /\ StablePrefix) =>
          LET all_keys == enumeration[1].returned[1].val
          IN /\ DupFree(all_keys)
             /\ {all_keys[i] : i \in 1..Len(all_keys)} = PrefixKeys
             /\ Len(node.served) = (Cardinality(PrefixKeys) \div page_size) + 1
    /\ (EnumerationAt("paging") /\ node.served # <<>> /\ StablePrefix) =>
          LET e == enumeration[1]
          IN /\ e.start_key = Some(Last(e.all_keys))
             /\ Len(e.all_keys) = page_size * Len(node.served)
             /\ e.all_keys = Truncate(SortedSeq(PrefixKeys), Len(e.all_keys))
    /\ (EnumerationAt("returned") /\ ~enumeration[1].returned[1].ok) =>
          enumeration[1].returned[1] = Err("Error getting keys paged")

\* C29: get_all_keys terminates and returns every key under the prefix exactly
\* once: it asks for the next page from the last key received, stops at the
\* first page that is empty or shorter than page_size, and an RPC error on any
\* page fails the enumeration without a partial key list.
C29_AllKeysOnceAndTerminates ==
    /\ []AllKeysOnce
    /\ (enumeration # None) ~> EnumerationAt("returned")

\* a prefix of more than one full page was enumerated to its end
C29_Witness ==
    /\ KeysReturned
    /\ StablePrefix
    /\ Len(node.served) = 3
    /\ Len(enumeration[1].returned[1].val) = MaxKeys

\* ---------------------------------------------------------------- C30

\* C30: within one reconstruction every read observes one and the same block:
\* the pages of the key enumeration are answered from the block whose storage
\* get_block_details pinned, also when the block is omitted and the head
\* advances in between.
C30_OneBlockForAllReads ==
    (enumeration # None) =>
        \A i \in 1..Len(node.served) : node.served[i] = enumeration[1].storage

====
